---- MODULE Spec2Model ----
(***************************************************************************)
(* Model of the downstage ADLS Gen2 client: the OAuth2 token refresh of    *)
(* OAuth2AdlsApiClient, its HTTP verb dispatchers, the ApiClient           *)
(* operations built on them and the AdlsFileSystem wrapper.                *)
(*                                                                         *)
(* Time is a global integer clock of seconds.  The identity provider and   *)
(* the storage account are the environment: they answer a request that is *)
(* in flight with any status of a small set.  Each caller is a thread     *)
(* with a program counter; under Spec the callers are serialized (one      *)
(* public operation at a time), as the client's design assumes.            *)
(***************************************************************************)
EXTENDS Integers, Sequences, FiniteSets, TLC

VARIABLES
    now,                            \* datetime.datetime.now(), in seconds
    constructed,                    \* which object the factory has returned
    session_headers,                \* self.session.headers
    oauth2_token_time_expiration,   \* self._oauth2_token_time_expiration
    refresh_oauth2_token_command,   \* self.refresh_oauth2_token_command
    idp_issued,                     \* tokens the identity provider has issued
    pc,                             \* per thread: position in the code
    op,                             \* per thread: the public operation running
    step,                           \* per thread: dispatcher call of the operation
    call,                           \* per thread: arguments of the dispatcher call
    token_response,                 \* per thread: `response` of _refresh_oauth2_token
    response,                       \* per thread: `response` of the verb dispatcher
    result,                         \* per thread: what the operation returned
    checks,                         \* per thread: freshness checks of this operation
    token_requests,                 \* per thread: token POSTs of this operation
    storage_requests,               \* per thread: storage requests of this operation
    store,                          \* the storage account: filesystems and paths
    test,                           \* the test function that drives the client
    serialized                      \* whether the callers take turns on the client

vars == <<now, constructed, session_headers, oauth2_token_time_expiration,
          refresh_oauth2_token_command, idp_issued, pc, op, step, call,
          token_response, response, result, checks, token_requests,
          storage_requests, store, test, serialized>>

\* what lies outside the client: the storage account, the test in progress and
\* the discipline of the callers
env_vars == <<store, test, serialized>>

client_vars == <<session_headers, oauth2_token_time_expiration>>

-----------------------------------------------------------------------------
(* Bounds of the model.                                                    *)

MaxTime == 2

MaxTokens == 2

Threads == {1, 2}

(* Program constants.                                                      *)

Margin == 45

(* Inputs and environment answers.                                         *)

ExpiresIns == {44, 45, 46}

TokenStatuses == {200, 401}

StorageStatuses == {200, 304, 404, 503}

Positions == {0, 2}

FilesystemId == "fs"

Paths == {"data/f.txt"}

AccountName == "acct"

DnsSuffix == "dfs.core.windows.net"

\* the credentials the client is constructed with
TenantId == "tenant"

ClientId == "client-id"

ClientSecret == "client-secret"

-----------------------------------------------------------------------------
(* Python values held in dicts: None, str, int, bool and object references *)
(* are tagged so that `value is not None` can be evaluated on any of them. *)

None == [tag |-> "None", n |-> 0, s |-> ""]

Str(s) == [tag |-> "str", n |-> 0, s |-> s]

Num(n) == [tag |-> "int", n |-> n, s |-> ""]

Bool(b) == [tag |-> "bool", n |-> IF b THEN 1 ELSE 0, s |-> ""]

Obj(s) == [tag |-> "object", n |-> 0, s |-> s]

\* a bytes object; s holds one character per byte
Bytes(s) == [tag |-> "bytes", n |-> 0, s |-> s]

\* len(value) of a str or of a bytes object
len(value) == Len(value.s)

\* bool(value): None, 0, False, '' and b'' are false
Truthy(value) ==
    CASE value.tag = "None" -> FALSE
      [] value.tag \in {"str", "bytes"} -> value.s # ""
      [] value.tag \in {"int", "bool"} -> value.n # 0
      [] OTHER -> TRUE

\* isinstance(value, str)
isinstance_str(value) == value.tag = "str"

\* the contents a caller passes to write()
Contents == {Str(""), Str("AB"), Bytes("AB")}

EmptyDict == [k \in {} |-> None]

\* dict.update(other)
Update(d, e) ==
    [k \in (DOMAIN d) \cup (DOMAIN e) |-> IF k \in DOMAIN e THEN e[k] ELSE d[k]]

\* dict.pop(key)
Pop(d, key) == [k \in (DOMAIN d) \ {key} |-> d[k]]

-----------------------------------------------------------------------------
(* utils.py                                                                *)

RECURSIVE LStrip(_)
LStrip(s) ==
    IF Len(s) > 0 /\ SubSeq(s, 1, 1) = "/" THEN LStrip(SubSeq(s, 2, Len(s))) ELSE s

RECURSIVE RStrip(_)
RStrip(s) ==
    IF Len(s) > 0 /\ SubSeq(s, Len(s), Len(s)) = "/"
    THEN RStrip(SubSeq(s, 1, Len(s) - 1))
    ELSE s

\* piece.strip('/')
Strip(s) == RStrip(LStrip(s))

\* '/'.join([piece.strip('/') for piece in parts])
RECURSIVE join_url_parts(_)
join_url_parts(parts) ==
    IF Len(parts) = 0 THEN ""
    ELSE IF Len(parts) = 1 THEN Strip(parts[1])
    ELSE Strip(parts[1]) \o "/" \o join_url_parts(Tail(parts))

Upper(c) ==
    CASE c = "i" -> "I"
      [] c = "r" -> "R"
      [] c = "t" -> "T"
      [] OTHER -> c

\* inflection.camelize(arg, uppercase_first_letter=False): every "_x" becomes "X"
RECURSIVE camelize(_)
camelize(arg) ==
    IF Len(arg) = 0 THEN ""
    ELSE IF SubSeq(arg, 1, 1) = "_" /\ Len(arg) > 1
         THEN Upper(SubSeq(arg, 2, 2)) \o camelize(SubSeq(arg, 3, Len(arg)))
         ELSE SubSeq(arg, 1, 1) \o camelize(SubSeq(arg, 2, Len(arg)))

\* mutant: the filter is `if value` instead of `if value is not None`
get_params_if_value(parameters, exclusions) ==
    LET merged == IF "kwargs" \in DOMAIN parameters
                  THEN Pop(Update(parameters, parameters["kwargs"]), "kwargs")
                  ELSE parameters
        kept == {arg \in DOMAIN merged : Truthy(merged[arg]) /\ arg \notin exclusions}
    IN  [c \in {camelize(arg) : arg \in kept} |->
            merged[CHOOSE arg \in kept : camelize(arg) = c]]

\* get_params(parameters, exclusions), process_kwargs=True
get_params(parameters, exclusions) ==
    LET merged == IF "kwargs" \in DOMAIN parameters
                  THEN Pop(Update(parameters, parameters["kwargs"]), "kwargs")
                  ELSE parameters
        kept == {arg \in DOMAIN merged : merged[arg] # None /\ arg \notin exclusions}
    IN  [c \in {camelize(arg) : arg \in kept} |->
            merged[CHOOSE arg \in kept : camelize(arg) = c]]

-----------------------------------------------------------------------------
(* filesystem_api.py: module constants.                                    *)

\* HTTP header names are case-insensitive: they are written in lower case here,
\* except Authorization, which the code always writes the same way.
ACCESS_TOKEN_REQUIRED_HEADERS ==
    [k \in {"content-type"} |-> "application/x-www-form-urlencoded"]

\* AUTH2_TOKEN_URL_TEMPLATE.format(tenant_id=self._tenant_id)
AUTH2_TOKEN_URL ==
    "https://login.microsoftonline.com/" \o TenantId \o "/oauth2/v2.0/token"

REQUIRED_HEADERS == [k \in {"content-type"} |-> "application/json"]

\* HTTPS_BASE_URL.format(account_name=account_name, dnssuffix=dns_suffix)
base_url == "https://" \o AccountName \o "." \o DnsSuffix

\* The client object that `self` names inside OAuth2AdlsApiClient.
Self == "OAuth2AdlsApiClient"

\* headers=None and headers={} add nothing to the session's headers
NoHeaders == [k \in {} |-> ""]

\* what locals() holds under the name `headers`
HeadersLocal(headers) == IF DOMAIN headers = {} THEN None ELSE Obj("headers")

-----------------------------------------------------------------------------
(* filesystem_api.py: the ApiClient operations.  Each yields the arguments *)
(* of the one verb dispatcher it calls.                                    *)

DispatcherCall(api, verb, endpoint, params, data, headers) ==
    [api |-> api, verb |-> verb, url |-> base_url, endpoint |-> endpoint,
     params |-> params, data |-> data, headers |-> headers]

list_filesystem(headers, kwargs) ==
    LET locals == [self |-> Obj(Self), headers |-> HeadersLocal(headers),
                   kwargs |-> kwargs, resource |-> Str("account")]
        params == get_params(locals, {"self", "filesystem_identifier", "headers"})
    IN  DispatcherCall("list_filesystem", "GET", "", params, None, headers)

FilesystemLocals(filesystem_identifier, headers, kwargs) ==
    [self |-> Obj(Self), filesystem_identifier |-> Str(filesystem_identifier),
     headers |-> HeadersLocal(headers), kwargs |-> kwargs,
     resource |-> Str("filesystem")]

create_filesystem(filesystem_identifier, headers, kwargs) ==
    LET params == get_params(FilesystemLocals(filesystem_identifier, headers, kwargs),
                             {"self", "filesystem_identifier", "headers"})
    IN  DispatcherCall("create_filesystem", "PUT", filesystem_identifier,
                       params, None, headers)

delete_filesystem(filesystem_identifier, headers, kwargs) ==
    LET params == get_params(FilesystemLocals(filesystem_identifier, headers, kwargs),
                             {"self", "filesystem_identifier", "headers"})
    IN  DispatcherCall("delete_filesystem", "DELETE", filesystem_identifier,
                       params, None, headers)

get_filesystem_properties(filesystem_identifier, headers, kwargs) ==
    LET params == get_params(FilesystemLocals(filesystem_identifier, headers, kwargs),
                             {"self", "filesystem_identifier", "headers"})
    IN  DispatcherCall("get_filesystem_properties", "HEAD", filesystem_identifier,
                       params, None, headers)

set_filesystem_properties(filesystem_identifier, headers, kwargs) ==
    LET params == get_params(FilesystemLocals(filesystem_identifier, headers, kwargs),
                             {"self", "filesystem_identifier", "headers"})
    IN  DispatcherCall("set_filesystem_properties", "PATCH", filesystem_identifier,
                       params, None, headers)

PathLocals(filesystem_identifier, path, headers, kwargs) ==
    [self |-> Obj(Self), filesystem_identifier |-> Str(filesystem_identifier),
     path |-> Str(path), headers |-> HeadersLocal(headers), kwargs |-> kwargs]

\* '{}/{}'.format(filesystem_identifier, path)
PathEndpoint(filesystem_identifier, path) == filesystem_identifier \o "/" \o path

create_path(filesystem_identifier, path, headers, kwargs) ==
    LET params == get_params(PathLocals(filesystem_identifier, path, headers, kwargs),
                             {"self", "filesystem_identifier", "path", "headers"})
    IN  DispatcherCall("create_path", "PUT", PathEndpoint(filesystem_identifier, path),
                       params, None, headers)

\* mutant: the request is sent to the filesystem instead of the path
delete_path_of_filesystem(filesystem_identifier, path, recursive, headers, kwargs) ==
    LET locals == Update(PathLocals(filesystem_identifier, path, headers, kwargs),
                         [k \in {"recursive"} |-> recursive])
        params == get_params(locals, {"self", "filesystem_identifier", "path", "headers"})
    IN  DispatcherCall("delete_path", "DELETE", filesystem_identifier,
                       params, None, headers)

delete_path(filesystem_identifier, path, recursive, headers, kwargs) ==
    LET locals == Update(PathLocals(filesystem_identifier, path, headers, kwargs),
                         [k \in {"recursive"} |-> recursive])
        params == get_params(locals, {"self", "filesystem_identifier", "path", "headers"})
    IN  DispatcherCall("delete_path", "DELETE", PathEndpoint(filesystem_identifier, path),
                       params, None, headers)

list_path(filesystem_identifier, recursive, headers, kwargs) ==
    LET locals == Update(FilesystemLocals(filesystem_identifier, headers, kwargs),
                         [k \in {"recursive"} |-> recursive])
        params == get_params(locals, {"self", "filesystem_identifier", "headers"})
    IN  DispatcherCall("list_path", "GET", filesystem_identifier, params, None, headers)

read_path(filesystem_identifier, path, headers, kwargs) ==
    LET params == get_params(PathLocals(filesystem_identifier, path, headers, kwargs),
                             {"self", "filesystem_identifier", "path", "headers"})
    IN  DispatcherCall("read_path", "GET", PathEndpoint(filesystem_identifier, path),
                       params, None, headers)

update_path(filesystem_identifier, path, data, headers, kwargs) ==
    LET locals == Update(PathLocals(filesystem_identifier, path, headers, kwargs),
                         [k \in {"data"} |-> data])
        params == get_params(locals,
                             {"self", "filesystem_identifier", "pat", "data", "headers"})
    IN  DispatcherCall("update_path", "PATCH", PathEndpoint(filesystem_identifier, path),
                       params, data, headers)

get_path_properties(filesystem_identifier, path, headers, kwargs) ==
    LET params == get_params(PathLocals(filesystem_identifier, path, headers, kwargs),
                             {"self", "filesystem_identifier", "path", "headers"})
    IN  DispatcherCall("get_path_properties", "HEAD",
                       PathEndpoint(filesystem_identifier, path), params, None, headers)

lease_path(filesystem_identifier, path, headers, kwargs) ==
    LET params == get_params(PathLocals(filesystem_identifier, path, headers, kwargs),
                             {"self", "filesystem_identifier", "path", "headers"})
    IN  DispatcherCall("lease_path", "POST", PathEndpoint(filesystem_identifier, path),
                       params, None, headers)

\* mutant: the Command does not keep the client that issued the request
CommandWithoutClient(api_client, resp) ==
    [kind |-> "Command", api_client |-> "", response |-> resp]

\* class Command
Command(api_client, resp) == [kind |-> "Command", api_client |-> api_client, response |-> resp]

-----------------------------------------------------------------------------
(* adlsfilesystem.py: the AdlsFileSystem wrapper.  Each method yields the  *)
(* arguments of the dispatcher call its ApiClient operation makes.         *)

Dict1(key, value) == [k \in {key} |-> value]

\* str(n) for the lengths that occur
ToStr(n) ==
    CASE n = 0 -> "0"
      [] n = 1 -> "1"
      [] n = 2 -> "2"
      [] n = 3 -> "3"
      [] OTHER -> "4"

\* self.headers, set by AdlsFileSystem.__init__
fs_headers == Dict1("x-ms-version", "2018-11-09")

mkdir(filesystem_id, path) ==
    create_path(filesystem_id, path,
                Update(Dict1("content-length", "0"), fs_headers),
                Dict1("resource", Str("directory")))

touch(filesystem_id, path) ==
    create_path(filesystem_id, path,
                Update(Dict1("content-length", "0"), fs_headers),
                Dict1("resource", Str("file")))

rmdir(filesystem_id, path, recursive) ==
    delete_path(filesystem_id, path, Bool(recursive), fs_headers, EmptyDict)

rm(filesystem_id, path) ==
    delete_path(filesystem_id, path, Bool(FALSE), fs_headers, EmptyDict)

ls(filesystem_id, path, recursive) ==
    list_path(filesystem_id, Bool(recursive), fs_headers, Dict1("directory", Str(path)))

cat(filesystem_id, path) ==
    read_path(filesystem_id, path, fs_headers, EmptyDict)

\* write(): the append call
write_append(filesystem_id, path, contents, position) ==
    LET contents_length == len(contents)
        kwargs == Update(Dict1("action", Str("append")), Dict1("position", Num(position)))
        headers == Update(Dict1("content-length", ToStr(contents_length)), fs_headers)
    IN  update_path(filesystem_id, path, contents, headers, kwargs)

\* mutant: the flush is sent for the offset the append started at
write_flush_at_append_position(filesystem_id, path, contents, position) ==
    LET kwargs == Update(Dict1("action", Str("flush")), Dict1("position", Num(position)))
        headers == Update(Update(Dict1("content-length", "0"),
                                 Dict1("x-ms-content-type", "text/plain")),
                          fs_headers)
    IN  update_path(filesystem_id, path, None, headers, kwargs)

\* write(): the flush call
write_flush(filesystem_id, path, contents, position) ==
    LET contents_length == len(contents)
        kwargs == Update(Dict1("action", Str("flush")),
                         Dict1("position", Num(position + contents_length)))
        headers == Update(Update(Dict1("content-length", "0"),
                                 Dict1("x-ms-content-type", "text/plain")),
                          fs_headers)
    IN  update_path(filesystem_id, path, None, headers, kwargs)

-----------------------------------------------------------------------------
(* The public operations a caller can invoke, with their arguments.        *)

PublicOp(name, path, contents, position, recursive, headers, kwargs) ==
    [name |-> name, path |-> path, contents |-> contents, position |-> position,
     recursive |-> recursive, headers |-> headers, kwargs |-> kwargs, create |-> FALSE]

NoOp == PublicOp("", "", None, 0, FALSE, NoHeaders, EmptyDict)

\* OAuth2AdlsApiClient(...) and OAuth2AdlsFileSystem(..., filesystem_id, create)
Constructors ==
    {[PublicOp("OAuth2AdlsApiClient", "", None, 0, FALSE, NoHeaders, EmptyDict)
        EXCEPT !.create = FALSE]}
    \cup {[PublicOp("OAuth2AdlsFileSystem", "", None, 0, FALSE, NoHeaders, EmptyDict)
            EXCEPT !.create = c] : c \in BOOLEAN}

IsConstructor(o) == o.name \in {"OAuth2AdlsApiClient", "OAuth2AdlsFileSystem"}

\* operations of the ApiClient, called directly on the client: without headers,
\* and create_path with headers that name the protocol version
ApiOps ==
    {PublicOp(n, p, None, 0, TRUE, NoHeaders, EmptyDict) :
        n \in {"list_filesystem", "create_filesystem", "delete_filesystem",
               "get_filesystem_properties", "set_filesystem_properties",
               "delete_path", "list_path", "read_path",
               "get_path_properties", "lease_path"},
        p \in Paths}
    \cup {PublicOp("create_path", p, None, 0, TRUE,
                   Update(Dict1("content-length", "0"),
                          Dict1("x-ms-version", "2018-11-09")),
                   EmptyDict) : p \in Paths}
    \cup {PublicOp("update_path", p, c, 0, TRUE, NoHeaders,
                   Update(Dict1("action", Str("append")), Dict1("position", Num(0)))) :
            p \in Paths, c \in {Str("A")}}

\* methods of the AdlsFileSystem wrapper
FsOps ==
    {PublicOp(n, p, None, 0, FALSE, NoHeaders, EmptyDict) :
        n \in {"mkdir", "touch", "rm", "cat"}, p \in Paths}
    \cup {PublicOp("rmdir", p, None, 0, TRUE, NoHeaders, EmptyDict) : p \in Paths}
    \cup {PublicOp("ls", p, None, 0, FALSE, NoHeaders, EmptyDict) : p \in Paths}
    \cup {PublicOp("write", p, c, pos, FALSE, NoHeaders, EmptyDict) :
            p \in Paths, c \in Contents, pos \in Positions}

IsFsOp(o) == o.name \in {"mkdir", "touch", "rm", "cat", "rmdir", "ls", "write"}

\* the filesystem_identifier argument of a call of the ApiClient: the one the
\* caller names, or FilesystemId
FilesystemOf(o) ==
    IF "filesystem_identifier" \in DOMAIN o THEN o.filesystem_identifier ELSE FilesystemId

\* the recursive argument of delete_path and list_path: the value the caller
\* names, which may be None, or True or False
RecursiveOf(o) ==
    IF "recursive_argument" \in DOMAIN o THEN o.recursive_argument ELSE Bool(o.recursive)

\* the dispatcher call that operation o makes as its n-th
CallOf(o, n) ==
    CASE o.name = "list_filesystem" -> list_filesystem(o.headers, o.kwargs)
      [] o.name = "create_filesystem" -> create_filesystem(FilesystemOf(o), o.headers, o.kwargs)
      [] o.name = "delete_filesystem" -> delete_filesystem(FilesystemOf(o), o.headers, o.kwargs)
      [] o.name = "get_filesystem_properties" ->
            get_filesystem_properties(FilesystemOf(o), o.headers, o.kwargs)
      [] o.name = "set_filesystem_properties" ->
            set_filesystem_properties(FilesystemOf(o), o.headers, o.kwargs)
      [] o.name = "create_path" -> create_path(FilesystemOf(o), o.path, o.headers, o.kwargs)
      [] o.name = "delete_path" ->
            delete_path(FilesystemOf(o), o.path, RecursiveOf(o), o.headers, o.kwargs)
      [] o.name = "list_path" ->
            list_path(FilesystemOf(o), RecursiveOf(o), o.headers, o.kwargs)
      [] o.name = "read_path" -> read_path(FilesystemOf(o), o.path, o.headers, o.kwargs)
      [] o.name = "update_path" ->
            update_path(FilesystemOf(o), o.path, o.contents, o.headers, o.kwargs)
      [] o.name = "get_path_properties" ->
            get_path_properties(FilesystemOf(o), o.path, o.headers, o.kwargs)
      [] o.name = "lease_path" -> lease_path(FilesystemOf(o), o.path, o.headers, o.kwargs)
      [] o.name = "mkdir" -> mkdir(FilesystemId, o.path)
      [] o.name = "touch" -> touch(FilesystemId, o.path)
      [] o.name = "rmdir" -> rmdir(FilesystemId, o.path, o.recursive)
      [] o.name = "rm" -> rm(FilesystemId, o.path)
      [] o.name = "ls" -> ls(FilesystemId, o.path, o.recursive)
      [] o.name = "cat" -> cat(FilesystemId, o.path)
      [] o.name = "write" /\ n = 1 ->
            write_append(FilesystemId, o.path, o.contents, o.position)
      [] o.name = "write" /\ n = 2 ->
            write_flush(FilesystemId, o.path, o.contents, o.position)
      [] o.name = "OAuth2AdlsFileSystem" ->
            create_filesystem(FilesystemId, fs_headers, EmptyDict)

\* how many dispatcher calls operation o makes when none fails
CallsOf(o) ==
    CASE o.name = "write" -> 2
      [] o.name = "OAuth2AdlsApiClient" -> 0
      [] o.name = "OAuth2AdlsFileSystem" -> IF o.create THEN 1 ELSE 0
      [] OTHER -> 1

-----------------------------------------------------------------------------
(* Requests, responses and results.                                        *)

NoRequest ==
    [method |-> "", url |-> "", params |-> EmptyDict, data |-> None, headers |-> NoHeaders]

NoResponse == [status_code |-> 0, request |-> NoRequest, json |-> EmptyDict, content |-> ""]

NoCall == DispatcherCall("", "", "", EmptyDict, None, NoHeaders)

NoResult == [kind |-> "none"]

\* mutant: the scheme is left out of the header
BearerWithoutScheme(access_token) == [scheme |-> "", token |-> access_token]

\* 'Bearer {}'.format(access_token)
Bearer(access_token) == [scheme |-> "Bearer", token |-> access_token]

\* the access token the identity provider issues at time t as its k-th; exp is
\* its real expiry, issue time plus expires_in
AccessToken(k, t, expires_in) == [id |-> k, exp |-> t + expires_in]

\* bodies of a token response with a success status
TokenBody(access_token, expires_in, kind) ==
    CASE kind = "full" ->
            [k \in {"access_token", "expires_in"} |->
                IF k = "access_token" THEN access_token ELSE expires_in]
      [] kind = "no_access_token" -> Dict1("expires_in", expires_in)
      [] kind = "no_expires_in" -> Dict1("access_token", access_token)

BodyKinds == {"full", "no_access_token", "no_expires_in"}

\* mutant: the headers of the call are dropped
MergeHeadersSessionOnly(session, headers) == session

\* requests merges the session's headers with the headers of the call
MergeHeaders(session, headers) == Update(session, headers)

\* mutant: only a 5xx status raises
RaisesForServerErrorOnly(status_code) == status_code >= 500 /\ status_code < 600

\* mutant: only a 4xx status raises
RaisesForClientErrorOnly(status_code) == status_code >= 400 /\ status_code < 500

\* mutant: every status outside 2xx raises
RaisesForNon2xx(status_code) == status_code < 200 \/ status_code >= 300

\* response.raise_for_status() raises
RaisesForStatus(status_code) == status_code >= 400 /\ status_code < 600

\* time_until_expiration of _refresh_oauth2_token: <<>> is None, <<d>> a timedelta
TimeUntilExpiration(expiration, t) ==
    IF Len(expiration) > 0 THEN <<expiration[1] - t>> ELSE <<>>

\* mutant: the comparison with zero is written the wrong way round
TokenExpiredSignFlipped(time_until_expiration) ==
    \/ Len(time_until_expiration) = 0
    \/ time_until_expiration[1] = 0
    \/ time_until_expiration[1] > 0

\* mutant: only the absence of a recorded expiry makes the token count as expired
TokenExpiredOnlyWhenUnset(time_until_expiration) == Len(time_until_expiration) = 0

\* `not time_until_expiration or time_until_expiration.total_seconds() < 0`:
\* None and timedelta(0) are both falsy
TokenExpired(time_until_expiration) ==
    \/ Len(time_until_expiration) = 0
    \/ time_until_expiration[1] = 0
    \/ time_until_expiration[1] < 0

\* mutant: a lifetime below the margin is counted as no lifetime at all
TokenExpiresFromNowSecsClamped(expires_in) ==
    IF expires_in < Margin THEN 0 ELSE expires_in - Margin

\* mutant: the 45 seconds are not deducted
TokenExpiresFromNowSecsNoMargin(expires_in) == expires_in

\* token_expires_from_now_secs
TokenExpiresFromNowSecs(expires_in) == expires_in - Margin

\* mutant: the token POST goes out through requests.post, outside the session
TokenRequestOutsideSession(session) ==
    [method |-> "POST", url |-> AUTH2_TOKEN_URL, params |-> EmptyDict,
     data |-> Str("scope=https://storage.azure.com/.default&grant_type=client_credentials"
                  \o "&client_id=" \o ClientId \o "&client_secret=" \o ClientSecret),
     headers |-> ACCESS_TOKEN_REQUIRED_HEADERS]

\* the token POST of _refresh_oauth2_token, sent by _post through the session
TokenRequest(session) ==
    [method |-> "POST", url |-> AUTH2_TOKEN_URL, params |-> EmptyDict,
     data |-> Str("scope=https://storage.azure.com/.default&grant_type=client_credentials"
                  \o "&client_id=" \o ClientId \o "&client_secret=" \o ClientSecret),
     headers |-> MergeHeaders(session, ACCESS_TOKEN_REQUIRED_HEADERS)]

\* mutant: the request is sent outside the session, without its headers
StorageRequestOutsideSession(c, session) ==
    [method |-> c.verb,
     url |-> IF c.endpoint # "" THEN join_url_parts(<<c.url, c.endpoint>>) ELSE c.url,
     params |-> c.params,
     data |-> c.data,
     headers |-> c.headers]

\* json.dumps(data) raises TypeError for a bytes object
JsonDumpsRaises(data) == data.tag = "bytes"

\* _patch, _post, _put: `if data and not isinstance(data, str): data = json.dumps(data)`
DumpsRaises(c) ==
    /\ c.verb \in {"PATCH", "POST", "PUT"}
    /\ Truthy(c.data)
    /\ ~isinstance_str(c.data)
    /\ JsonDumpsRaises(c.data)

\* the request a verb dispatcher (_delete, _get, _head, _patch, _post, _put) sends
StorageRequest(c, session) ==
    [method |-> c.verb,
     url |-> IF c.endpoint # "" THEN join_url_parts(<<c.url, c.endpoint>>) ELSE c.url,
     params |-> c.params,
     data |-> c.data,
     headers |-> MergeHeaders(session, c.headers)]

\* what an ApiClient operation returns for the response of its dispatcher
ApiReturn(api, resp) ==
    IF api = "list_filesystem"
    THEN [kind |-> "dict", json |-> IF resp.content # "" THEN resp.json ELSE EmptyDict]
    ELSE Command(Self, resp)

Raised(error, resp) == [kind |-> "raised", error |-> error, response |-> resp]

Constructed(name) == [kind |-> "object", name |-> name]

-----------------------------------------------------------------------------
(* The log records of the module's logger.                                 *)

\* logger.debug('Sending ... request with url=%s, headers=%s, params=%s', ...):
\* the url, the headers argument of the call and its params
SendingRecord(method, url, headers, params) ==
    [level |-> "debug", method |-> method, url |-> url, headers |-> headers,
     params |-> params, status_code |-> 0]

\* logger.error('Encountered an error while doing %s on %s. Response: %s', ...)
ErrorRecord(resp) ==
    [level |-> "error", method |-> resp.request.method, url |-> resp.request.url,
     headers |-> NoHeaders, params |-> EmptyDict, status_code |-> resp.status_code]

\* the records the running operation of thread t has logged so far
LogOf(t) ==
    {SendingRecord("POST", token_requests[t][i].request.url,
                   ACCESS_TOKEN_REQUIRED_HEADERS, EmptyDict) :
        i \in DOMAIN token_requests[t]}
    \cup {ErrorRecord(token_requests[t][i].reply) :
            i \in {k \in DOMAIN token_requests[t] :
                     RaisesForStatus(token_requests[t][k].reply.status_code)}}
    \cup {SendingRecord(storage_requests[t][j].request.method,
                        storage_requests[t][j].request.url,
                        CallOf(op[t], storage_requests[t][j].step).headers,
                        storage_requests[t][j].request.params) :
            j \in DOMAIN storage_requests[t]}
    \cup {ErrorRecord(storage_requests[t][j].reply) :
            j \in {k \in DOMAIN storage_requests[t] :
                     RaisesForStatus(storage_requests[t][k].reply.status_code)}}

-----------------------------------------------------------------------------
(* The storage account the requests go to: a store that keeps filesystems  *)
(* and paths, buffers the bytes of an append and commits them on a flush.  *)
(* Bytes are written as strings with one character per byte.               *)

\* the UTF-8 bytes of a character
Utf8Char(c) ==
    CASE c = "é" -> "Ã©"
      [] OTHER -> c

\* the encodings the HTTP library may give the body of a request
BodyEncodings == {"utf-8", "latin-1"}

\* str.encode(encoding)
RECURSIVE encode(_, _)
encode(s, encoding) ==
    IF s = "" THEN ""
    ELSE (IF encoding = "utf-8" THEN Utf8Char(SubSeq(s, 1, 1)) ELSE SubSeq(s, 1, 1))
         \o encode(SubSeq(s, 2, Len(s)), encoding)

\* what bytes.decode() raises for bytes that are not UTF-8
UnicodeDecodeError == "UnicodeDecodeError"

\* bytes.decode()
RECURSIVE decode(_)
decode(b) ==
    LET After1 == decode(SubSeq(b, 2, Len(b)))
        After2 == decode(SubSeq(b, 3, Len(b)))
    IN  IF b = "" THEN ""
        ELSE IF Len(b) >= 2 /\ SubSeq(b, 1, 2) = "Ã©"
        THEN IF After2 = UnicodeDecodeError THEN UnicodeDecodeError ELSE "é" \o After2
        ELSE IF SubSeq(b, 1, 1) \in {"Ã", "©", "é"} THEN UnicodeDecodeError
        ELSE IF After1 = UnicodeDecodeError THEN UnicodeDecodeError
        ELSE SubSeq(b, 1, 1) \o After1

\* the body the HTTP library sends for the data of a request
BodyOf(data, encoding) ==
    CASE data.tag = "str" -> encode(data.s, encoding)
      [] data.tag = "bytes" -> data.s
      [] OTHER -> ""

\* the text of s before its first character c, and the text after it
RECURSIVE Before(_, _)
Before(s, c) ==
    IF s = "" \/ SubSeq(s, 1, 1) = c THEN ""
    ELSE SubSeq(s, 1, 1) \o Before(SubSeq(s, 2, Len(s)), c)

After(s, c) == SubSeq(s, Len(Before(s, c)) + 2, Len(s))

\* a path of the store: a directory, or a file with its committed content and
\* the bytes appended since the last flush
PathEntry(resource, content, uncommitted) ==
    [resource |-> resource, content |-> content, uncommitted |-> uncommitted]

NoPaths == [r \in {} |-> PathEntry("", "", "")]

\* an account without filesystems
EmptyStore == [filesystems |-> {}, paths |-> NoPaths]

\* the paths are kept under filesystem/path
PutPath(paths, r, entry) ==
    [k \in (DOMAIN paths) \cup {r} |-> IF k = r THEN entry ELSE paths[k]]

RemovePaths(paths, removed) == [k \in (DOMAIN paths) \ removed |-> paths[k]]

\* r lies below directory d
Under(r, d) == Len(r) > Len(d) + 1 /\ SubSeq(r, 1, Len(d) + 1) = d \o "/"

\* the part of the url after the account
ResourceOf(request) ==
    IF request.url = base_url THEN ""
    ELSE SubSeq(request.url, Len(base_url) + 2, Len(request.url))

ParamOf(request, key) ==
    IF key \in DOMAIN request.params THEN request.params[key] ELSE None

\* a JSON list of entries, given by their names
Names(names) == [tag |-> "list", n |-> 0, s |-> "", names |-> names]

Answered(status_code, json, content, st) ==
    [status_code |-> status_code, json |-> json, content |-> content, store |-> st]

Refused(status_code, st) == Answered(status_code, EmptyDict, "", st)

\* requests on the account: Filesystem - List
AccountAnswer(st, request) ==
    IF request.method = "GET" /\ ParamOf(request, "resource") = Str("account")
    THEN Answered(200, [k \in {"filesystems"} |-> Names(st.filesystems)], "{...}", st)
    ELSE Refused(400, st)

\* requests on a filesystem: Create, Delete, Path - List, Get and Set Properties
FilesystemAnswer(st, request, f) ==
    LET resource == ParamOf(request, "resource")
        directory == ParamOf(request, "directory")
        recursive == ParamOf(request, "recursive")
        inside == {r \in DOMAIN st.paths : Under(r, f)}
        below == IF directory.tag = "str"
                 THEN {r \in inside : Under(r, f \o "/" \o directory.s)}
                 ELSE inside
        parent == IF directory.tag = "str" THEN f \o "/" \o directory.s ELSE f
        listed == IF Truthy(recursive)
                  THEN below
                  ELSE {r \in below :
                          Before(SubSeq(r, Len(parent) + 2, Len(r)), "/")
                              = SubSeq(r, Len(parent) + 2, Len(r))}
    IN  IF resource # Str("filesystem") THEN Refused(400, st)
        ELSE IF request.method = "PUT"
        THEN IF f \in st.filesystems
             THEN Refused(409, st)
             ELSE Answered(201, EmptyDict, "", [st EXCEPT !.filesystems = @ \cup {f}])
        ELSE IF f \notin st.filesystems THEN Refused(404, st)
        ELSE IF request.method = "DELETE"
        THEN Answered(202, EmptyDict, "",
                      [filesystems |-> st.filesystems \ {f},
                       paths |-> RemovePaths(st.paths, inside)])
        ELSE IF request.method = "GET"
        THEN Answered(200,
                      [k \in {"paths"} |-> Names({After(r, "/") : r \in listed})],
                      "{...}", st)
        ELSE IF request.method \in {"HEAD", "PATCH"}
        THEN Answered(200, EmptyDict, "", st)
        ELSE Refused(400, st)

\* Path - Update: append buffers the body at the end of the file, flush commits
\* the buffer when the position is the length of the file with the buffer
UpdateAnswer(st, request, r, body) ==
    LET action == ParamOf(request, "action")
        position == ParamOf(request, "position")
        entry == st.paths[r]
        end == Len(entry.content) + Len(entry.uncommitted)
    IN  IF entry.resource # "file" \/ position.tag # "int" THEN Refused(400, st)
        ELSE IF action = Str("append")
        THEN IF position.n = end
             THEN Answered(202, EmptyDict, "",
                           [st EXCEPT !.paths[r].uncommitted = @ \o body])
             ELSE Refused(400, st)
        ELSE IF action = Str("flush")
        THEN IF position.n = end
             THEN Answered(200, EmptyDict, "",
                           [st EXCEPT !.paths[r] =
                               PathEntry("file", entry.content \o entry.uncommitted, "")])
             ELSE Refused(400, st)
        ELSE Refused(400, st)

\* requests on a path: Create, Delete, Read, Update, Get Properties, Lease
PathAnswer(st, request, f, r, body) ==
    LET resource == ParamOf(request, "resource")
        recursive == ParamOf(request, "recursive")
        children == {k \in DOMAIN st.paths : Under(k, r)}
    IN  IF f \notin st.filesystems THEN Refused(404, st)
        ELSE IF request.method = "PUT"
        THEN IF resource \in {Str("directory"), Str("file")}
             THEN Answered(201, EmptyDict, "",
                           [st EXCEPT !.paths = PutPath(@, r, PathEntry(resource.s, "", ""))])
             ELSE Refused(400, st)
        ELSE IF r \notin DOMAIN st.paths THEN Refused(404, st)
        ELSE IF request.method = "DELETE"
        THEN IF children # {} /\ ~Truthy(recursive)
             THEN Refused(409, st)
             ELSE Answered(200, EmptyDict, "",
                           [st EXCEPT !.paths = RemovePaths(@, children \cup {r})])
        ELSE IF request.method = "GET"
        THEN IF st.paths[r].resource = "file"
             THEN Answered(200, EmptyDict, st.paths[r].content, st)
             ELSE Refused(400, st)
        ELSE IF request.method = "PATCH" THEN UpdateAnswer(st, request, r, body)
        ELSE IF request.method \in {"HEAD", "POST"} THEN Answered(200, EmptyDict, "", st)
        ELSE Refused(400, st)

\* the answer of the account to a request, and the account after it
Answer(st, request, encoding) ==
    LET r == ResourceOf(request)
        f == Before(r, "/")
    IN  IF r = "" THEN AccountAnswer(st, request)
        ELSE IF After(r, "/") = "" THEN FilesystemAnswer(st, request, f)
        ELSE PathAnswer(st, request, f, r, BodyOf(request.data, encoding))

\* no test function runs
NoTest == [name |-> "", line |-> 0, contents |-> <<>>, seen |-> <<>>, raised |-> FALSE]

-----------------------------------------------------------------------------
(* The state machine.                                                      *)

Init ==
    /\ now = 0
    /\ constructed = "none"
    /\ session_headers = NoHeaders
    /\ oauth2_token_time_expiration = <<>>
    /\ refresh_oauth2_token_command = NoResult
    /\ idp_issued = 0
    /\ pc = [t \in Threads |-> "idle"]
    /\ op = [t \in Threads |-> NoOp]
    /\ step = [t \in Threads |-> 0]
    /\ call = [t \in Threads |-> NoCall]
    /\ token_response = [t \in Threads |-> NoResponse]
    /\ response = [t \in Threads |-> NoResponse]
    /\ result = [t \in Threads |-> NoResult]
    /\ checks = [t \in Threads |-> <<>>]
    /\ token_requests = [t \in Threads |-> <<>>]
    /\ storage_requests = [t \in Threads |-> <<>>]
    /\ store = EmptyStore
    /\ test = NoTest
    /\ serialized = TRUE

\* mutant: a caller never waits for the other one
Overlapping(t) == TRUE

\* no other thread is inside a public operation
Serialized(t) == \A u \in Threads \ {t} : pc[u] = "idle"

\* mutant: the constructor leaves the first token request to the first call
ConstructWithoutToken(t, o) ==
    /\ pc[t] = "idle"
    /\ constructed = "none"
    /\ session_headers' = NoHeaders
    /\ oauth2_token_time_expiration' = <<>>
    /\ refresh_oauth2_token_command' = NoResult
    /\ op' = [op EXCEPT ![t] = o]
    /\ step' = [step EXCEPT ![t] = 0]
    /\ call' = [call EXCEPT ![t] = NoCall]
    /\ constructed' = o.name
    /\ result' = [result EXCEPT ![t] = Constructed(o.name)]
    /\ pc' = [pc EXCEPT ![t] = "done"]
    /\ UNCHANGED <<now, idp_issued, token_response, response, checks, token_requests,
                   storage_requests>>

\* OAuth2AdlsApiClient.__init__ up to its call of _refresh_oauth2_token
Construct(t, o) ==
    /\ pc[t] = "idle"
    /\ constructed = "none"
    /\ session_headers' = NoHeaders
    /\ oauth2_token_time_expiration' = <<>>
    /\ refresh_oauth2_token_command' = NoResult
    /\ op' = [op EXCEPT ![t] = o]
    /\ step' = [step EXCEPT ![t] = 0]
    /\ call' = [call EXCEPT ![t] = NoCall]
    /\ pc' = [pc EXCEPT ![t] = "refresh"]
    /\ UNCHANGED <<now, constructed, idp_issued, token_response, response, result,
                   checks, token_requests, storage_requests>>

\* a caller invokes a public operation of the object it constructed, which
\* enters its first verb dispatcher
Invoke(t, o) ==
    /\ pc[t] = "idle"
    /\ constructed # "none"
    /\ IsFsOp(o) <=> constructed = "OAuth2AdlsFileSystem"
    /\ op' = [op EXCEPT ![t] = o]
    /\ step' = [step EXCEPT ![t] = 1]
    /\ call' = [call EXCEPT ![t] = CallOf(o, 1)]
    /\ pc' = [pc EXCEPT ![t] = "refresh"]
    /\ UNCHANGED <<now, constructed, client_vars, refresh_oauth2_token_command,
                   idp_issued, token_response, response, result, checks,
                   token_requests, storage_requests>>

\* mutant: every refresh is stored as refresh_oauth2_token_command
RefreshReturnsStoringCommand(t, resp) ==
    IF step[t] = 0
    THEN /\ refresh_oauth2_token_command' = Command(Self, resp)
         /\ IF CallsOf(op[t]) > 0
            THEN /\ step' = [step EXCEPT ![t] = 1]
                 /\ call' = [call EXCEPT ![t] = CallOf(op[t], 1)]
                 /\ pc' = [pc EXCEPT ![t] = "refresh"]
                 /\ UNCHANGED <<constructed, result>>
            ELSE /\ constructed' = op[t].name
                 /\ result' = [result EXCEPT ![t] = Constructed(op[t].name)]
                 /\ pc' = [pc EXCEPT ![t] = "done"]
                 /\ UNCHANGED <<step, call>>
    ELSE /\ pc' = [pc EXCEPT ![t] = "send"]
         /\ refresh_oauth2_token_command' =
               IF resp = NoResponse THEN refresh_oauth2_token_command
               ELSE Command(Self, resp)
         /\ UNCHANGED <<constructed, result, step, call>>

\* _refresh_oauth2_token returns resp to its caller: the constructor (step 0),
\* which then finishes or creates the filesystem, or a verb dispatcher
RefreshReturns(t, resp) ==
    IF step[t] = 0
    THEN /\ refresh_oauth2_token_command' = Command(Self, resp)
         /\ IF CallsOf(op[t]) > 0
            THEN /\ step' = [step EXCEPT ![t] = 1]
                 /\ call' = [call EXCEPT ![t] = CallOf(op[t], 1)]
                 /\ pc' = [pc EXCEPT ![t] = "refresh"]
                 /\ UNCHANGED <<constructed, result>>
            ELSE /\ constructed' = op[t].name
                 /\ result' = [result EXCEPT ![t] = Constructed(op[t].name)]
                 /\ pc' = [pc EXCEPT ![t] = "done"]
                 /\ UNCHANGED <<step, call>>
    ELSE /\ pc' = [pc EXCEPT ![t] = "send"]
         /\ UNCHANGED <<refresh_oauth2_token_command, constructed, result, step, call>>

\* mutant: the token POST is sent with refresh_oauth2_token=True, so that _post
\* enters _refresh_oauth2_token again before it sends
CheckTokenInsidePost(t) ==
    /\ pc[t] = "refresh"
    /\ LET time_until_expiration == TimeUntilExpiration(oauth2_token_time_expiration, now)
       IN  /\ checks' = [checks EXCEPT ![t] =
                            Append(@, [step |-> step[t],
                                       time_until_expiration |-> time_until_expiration])]
           /\ IF TokenExpired(time_until_expiration)
              THEN /\ Len(checks[t]) < 4
                   /\ UNCHANGED <<token_requests, pc, refresh_oauth2_token_command,
                                  constructed, result, step, call>>
              ELSE /\ UNCHANGED token_requests
                   /\ RefreshReturns(t, NoResponse)
    /\ UNCHANGED <<now, client_vars, idp_issued, op, token_response, response,
                   storage_requests>>

\* _refresh_oauth2_token, lines 409-417: the freshness check and, when the token
\* has expired, the token POST
CheckToken(t) ==
    /\ pc[t] = "refresh"
    /\ LET time_until_expiration == TimeUntilExpiration(oauth2_token_time_expiration, now)
       IN  /\ checks' = [checks EXCEPT ![t] =
                            Append(@, [step |-> step[t],
                                       time_until_expiration |-> time_until_expiration])]
           /\ IF TokenExpired(time_until_expiration)
              THEN /\ token_requests' =
                        [token_requests EXCEPT ![t] =
                            Append(@, [step |-> step[t],
                                       request |-> TokenRequest(session_headers),
                                       reply |-> NoResponse])]
                   /\ pc' = [pc EXCEPT ![t] = "token_wait"]
                   /\ UNCHANGED <<refresh_oauth2_token_command, constructed, result,
                                  step, call>>
              ELSE /\ UNCHANGED token_requests
                   /\ RefreshReturns(t, NoResponse)
    /\ UNCHANGED <<now, client_vars, idp_issued, op, token_response, response,
                   storage_requests>>

\* the identity provider answers the token POST; _post raises on a failure status
TokenReply(t, status_code, expires_in, kind) ==
    /\ pc[t] = "token_wait"
    /\ LET access_token == AccessToken(idp_issued + 1, now, expires_in)
           resp == [status_code |-> status_code,
                    request |-> token_requests[t][Len(token_requests[t])].request,
                    json |-> IF RaisesForStatus(status_code)
                             THEN EmptyDict
                             ELSE TokenBody(access_token, expires_in, kind),
                    content |-> IF RaisesForStatus(status_code) THEN "" ELSE "{...}"]
       IN  /\ token_response' = [token_response EXCEPT ![t] = resp]
           /\ token_requests' =
                 [token_requests EXCEPT ![t][Len(token_requests[t])].reply = resp]
           /\ IF RaisesForStatus(status_code)
              THEN /\ pc' = [pc EXCEPT ![t] = "done"]
                   /\ result' = [result EXCEPT ![t] = Raised("HTTPError", resp)]
                   /\ UNCHANGED idp_issued
              ELSE /\ idp_issued < MaxTokens
                   /\ idp_issued' = idp_issued + 1
                   /\ pc' = [pc EXCEPT ![t] = "token_update"]
                   /\ UNCHANGED result
    /\ UNCHANGED <<now, constructed, client_vars, refresh_oauth2_token_command, op,
                   step, call, response, checks, storage_requests>>

\* _refresh_oauth2_token, lines 418-425: the session and the expiry are updated
TokenUpdate(t) ==
    /\ pc[t] = "token_update"
    /\ LET json == token_response[t].json
           with_required == Update(session_headers, REQUIRED_HEADERS)
       IN  IF "access_token" \notin DOMAIN json
           THEN /\ session_headers' = with_required
                /\ pc' = [pc EXCEPT ![t] = "done"]
                /\ result' = [result EXCEPT ![t] = Raised("KeyError", token_response[t])]
                /\ UNCHANGED <<oauth2_token_time_expiration, constructed,
                               refresh_oauth2_token_command, step, call>>
           ELSE /\ session_headers' =
                      Update(with_required,
                             Dict1("Authorization", Bearer(json["access_token"])))
                /\ IF "expires_in" \notin DOMAIN json
                   THEN /\ pc' = [pc EXCEPT ![t] = "done"]
                        /\ result' = [result EXCEPT ![t] =
                                         Raised("KeyError", token_response[t])]
                        /\ UNCHANGED <<oauth2_token_time_expiration, constructed,
                                       refresh_oauth2_token_command, step, call>>
                   ELSE /\ oauth2_token_time_expiration' =
                              <<now + TokenExpiresFromNowSecs(json["expires_in"])>>
                        /\ RefreshReturns(t, token_response[t])
    /\ UNCHANGED <<now, idp_issued, op, token_response, response, checks,
                   token_requests, storage_requests>>

\* mutant: the headers of the call are stored into the session
SendUpdatingSession(t) ==
    /\ pc[t] = "send"
    /\ storage_requests' = [storage_requests EXCEPT ![t] =
                               Append(@, [step |-> step[t],
                                          request |-> StorageRequest(call[t],
                                                                     session_headers),
                                          reply |-> NoResponse])]
    /\ session_headers' = MergeHeaders(session_headers, call[t].headers)
    /\ pc' = [pc EXCEPT ![t] = "wait"]
    /\ ~DumpsRaises(call[t])
    /\ UNCHANGED <<now, constructed, oauth2_token_time_expiration,
                   refresh_oauth2_token_command, idp_issued, op, step, call,
                   token_response, response, result, checks, token_requests>>

\* _delete, _get, _head, _patch, _post, _put: json.dumps raises, or the request
\* goes out on the session
Send(t) ==
    /\ pc[t] = "send"
    /\ IF DumpsRaises(call[t])
       THEN /\ pc' = [pc EXCEPT ![t] = "done"]
            /\ result' = [result EXCEPT ![t] = Raised("TypeError", NoResponse)]
            /\ UNCHANGED storage_requests
       ELSE /\ storage_requests' =
                  [storage_requests EXCEPT ![t] =
                      Append(@, [step |-> step[t],
                                 request |-> StorageRequest(call[t], session_headers),
                                 reply |-> NoResponse])]
            /\ pc' = [pc EXCEPT ![t] = "wait"]
            /\ UNCHANGED result
    /\ UNCHANGED <<now, constructed, client_vars, refresh_oauth2_token_command,
                   idp_issued, op, step, call, token_response, response, checks,
                   token_requests>>

\* mutant: a 5xx answer makes the dispatcher send the request once more
ReplyWithRetry(t, status_code, json, content) ==
    /\ pc[t] = "wait"
    /\ LET resp == [status_code |-> status_code,
                    request |-> storage_requests[t][Len(storage_requests[t])].request,
                    json |-> json, content |-> content]
       IN  /\ response' = [response EXCEPT ![t] = resp]
           /\ storage_requests' =
                 [storage_requests EXCEPT ![t][Len(storage_requests[t])].reply = resp]
           /\ IF status_code >= 500 /\ Cardinality({i \in DOMAIN storage_requests[t] :
                                        storage_requests[t][i].step = step[t]}) < 2
              THEN /\ pc' = [pc EXCEPT ![t] = "send"]
                   /\ UNCHANGED <<constructed, step, call, result>>
              ELSE IF RaisesForStatus(status_code)
              THEN /\ pc' = [pc EXCEPT ![t] = "done"]
                   /\ result' = [result EXCEPT ![t] = Raised("HTTPError", resp)]
                   /\ UNCHANGED <<constructed, step, call>>
              ELSE IF step[t] < CallsOf(op[t])
              THEN /\ step' = [step EXCEPT ![t] = step[t] + 1]
                   /\ call' = [call EXCEPT ![t] = CallOf(op[t], step[t] + 1)]
                   /\ pc' = [pc EXCEPT ![t] = "refresh"]
                   /\ UNCHANGED <<constructed, result>>
              ELSE IF IsConstructor(op[t])
              THEN /\ constructed' = op[t].name
                   /\ result' = [result EXCEPT ![t] = Constructed(op[t].name)]
                   /\ pc' = [pc EXCEPT ![t] = "done"]
                   /\ UNCHANGED <<step, call>>
              ELSE /\ result' = [result EXCEPT ![t] = ApiReturn(call[t].api, resp)]
                   /\ pc' = [pc EXCEPT ![t] = "done"]
                   /\ UNCHANGED <<constructed, step, call>>
    /\ UNCHANGED <<now, client_vars, refresh_oauth2_token_command, idp_issued, op,
                   token_response, checks, token_requests>>

\* the storage account answers; _handle_http_error raises or the dispatcher
\* returns the response to the operation, which wraps it or goes on
Reply(t, status_code, json, content) ==
    /\ pc[t] = "wait"
    /\ LET resp == [status_code |-> status_code,
                    request |-> storage_requests[t][Len(storage_requests[t])].request,
                    json |-> json, content |-> content]
       IN  /\ response' = [response EXCEPT ![t] = resp]
           /\ storage_requests' =
                 [storage_requests EXCEPT ![t][Len(storage_requests[t])].reply = resp]
           /\ IF RaisesForStatus(status_code)
              THEN /\ pc' = [pc EXCEPT ![t] = "done"]
                   /\ result' = [result EXCEPT ![t] = Raised("HTTPError", resp)]
                   /\ UNCHANGED <<constructed, step, call>>
              ELSE IF step[t] < CallsOf(op[t])
              THEN /\ step' = [step EXCEPT ![t] = step[t] + 1]
                   /\ call' = [call EXCEPT ![t] = CallOf(op[t], step[t] + 1)]
                   /\ pc' = [pc EXCEPT ![t] = "refresh"]
                   /\ UNCHANGED <<constructed, result>>
              ELSE IF IsConstructor(op[t])
              THEN /\ constructed' = op[t].name
                   /\ result' = [result EXCEPT ![t] = Constructed(op[t].name)]
                   /\ pc' = [pc EXCEPT ![t] = "done"]
                   /\ UNCHANGED <<step, call>>
              ELSE /\ result' = [result EXCEPT ![t] = ApiReturn(call[t].api, resp)]
                   /\ pc' = [pc EXCEPT ![t] = "done"]
                   /\ UNCHANGED <<constructed, step, call>>
    /\ UNCHANGED <<now, client_vars, refresh_oauth2_token_command, idp_issued, op,
                   token_response, checks, token_requests>>

\* the operation has returned or raised; the caller drops its result
Return(t) ==
    /\ pc[t] = "done"
    /\ pc' = [pc EXCEPT ![t] = "idle"]
    /\ op' = [op EXCEPT ![t] = NoOp]
    /\ step' = [step EXCEPT ![t] = 0]
    /\ call' = [call EXCEPT ![t] = NoCall]
    /\ token_response' = [token_response EXCEPT ![t] = NoResponse]
    /\ response' = [response EXCEPT ![t] = NoResponse]
    /\ result' = [result EXCEPT ![t] = NoResult]
    /\ checks' = [checks EXCEPT ![t] = <<>>]
    /\ token_requests' = [token_requests EXCEPT ![t] = <<>>]
    /\ storage_requests' = [storage_requests EXCEPT ![t] = <<>>]
    /\ UNCHANGED <<now, constructed, client_vars, refresh_oauth2_token_command,
                   idp_issued>>

\* a second passes
Tick ==
    /\ now < MaxTime
    /\ now' = now + 1
    /\ UNCHANGED <<constructed, client_vars, refresh_oauth2_token_command, idp_issued,
                   pc, op, step, call, token_response, response, result, checks,
                   token_requests, storage_requests>>

-----------------------------------------------------------------------------
(* The factories AdlsGen2ApiClient and AdlsGen2FileSystem.                  *)

\* authentication_method as the caller spells it
AuthenticationMethods == {"OAuth2", "oauth2", "SharedKey", "Basic"}

\* what os.environ.get returns for one variable: None when it is unset, else its
\* value
EnvironValues(value) == {None, Str(value)}

\* os.environ restricted to the three variables the factories read: each one set
\* or unset, and the case of a variable set to the empty string
Environs ==
    {[azure_client_id |-> i, azure_client_secret |-> s, azure_tenant_id |-> d] :
        i \in EnvironValues(ClientId), s \in EnvironValues(ClientSecret),
        d \in EnvironValues(TenantId)}
    \cup {[azure_client_id |-> Str(ClientId), azure_client_secret |-> Str(""),
           azure_tenant_id |-> Str(TenantId)]}

UpperChar(c) ==
    LET lower == "abcdefghijklmnopqrstuvwxyz"
        upper_case == "ABCDEFGHIJKLMNOPQRSTUVWXYZ"
    IN  IF \E i \in 1..26 : SubSeq(lower, i, i) = c
        THEN LET i == CHOOSE k \in 1..26 : SubSeq(lower, k, k) = c
             IN  SubSeq(upper_case, i, i)
        ELSE c

\* mutant: the method is compared as the caller spelled it
upper_not_applied(s) == s

\* str.upper()
RECURSIVE upper(_)
upper(s) ==
    IF Len(s) = 0 THEN ""
    ELSE UpperChar(SubSeq(s, 1, 1)) \o upper(SubSeq(s, 2, Len(s)))

\* mutant: one credential is enough
any(values) == \E i \in DOMAIN values : Truthy(values[i])

\* all([...])
all(values) == \A i \in DOMAIN values : Truthy(values[i])

\* a call of a factory; it constructs OAuth2AdlsApiClient or OAuth2AdlsFileSystem
FactoryCall(factory, authentication_method, environ, create) ==
    [name |-> IF factory = "AdlsGen2ApiClient"
              THEN "OAuth2AdlsApiClient" ELSE "OAuth2AdlsFileSystem",
     path |-> "", contents |-> None, position |-> 0, recursive |-> FALSE,
     headers |-> NoHeaders, kwargs |-> EmptyDict, create |-> create,
     factory |-> factory, authentication_method |-> authentication_method,
     environ |-> environ]

\* AdlsGen2ApiClient.__new__ and AdlsGen2FileSystem.__new__
New(t, factory, authentication_method, environ, create) ==
    LET o == FactoryCall(factory, authentication_method, environ, create)
        capitalized_authentication_method == upper(authentication_method)
        client_id == environ.azure_client_id
        client_secret == environ.azure_client_secret
        tenant_id == environ.azure_tenant_id
        raise(error) ==
            /\ op' = [op EXCEPT ![t] = o]
            /\ pc' = [pc EXCEPT ![t] = "done"]
            /\ result' = [result EXCEPT ![t] = Raised(error, NoResponse)]
            /\ UNCHANGED <<now, constructed, client_vars,
                           refresh_oauth2_token_command, idp_issued, step, call,
                           token_response, response, checks, token_requests,
                           storage_requests>>
    IN  /\ pc[t] = "idle"
        /\ constructed = "none"
        /\ IF capitalized_authentication_method = "OAUTH2"
           THEN IF ~all(<<client_id, client_secret, tenant_id>>)
                THEN raise("ValueError(environment variables)")
                ELSE Construct(t, o)
           ELSE raise("ValueError(authentication_method)")

\* the one caller of a serialized client
Callers == {1}

Next ==
    \/ \E t \in Callers, o \in Constructors : Serialized(t) /\ Construct(t, o) /\ UNCHANGED env_vars
    \/ \E t \in Callers, o \in ApiOps \cup FsOps : Serialized(t) /\ Invoke(t, o) /\ UNCHANGED env_vars
    \/ \E t \in Callers : CheckToken(t) /\ UNCHANGED env_vars
    \/ \E t \in Callers, s \in TokenStatuses, e \in ExpiresIns, k \in BodyKinds :
          (k = "full" \/ e = Margin) /\ TokenReply(t, s, e, k) /\ UNCHANGED env_vars
    \/ \E t \in Callers : TokenUpdate(t) /\ UNCHANGED env_vars
    \/ \E t \in Callers : Send(t) /\ UNCHANGED env_vars
    \/ \E t \in Callers, s \in StorageStatuses :
          Reply(t, s, EmptyDict, "") /\ UNCHANGED env_vars
    \/ \E t \in Callers : Return(t) /\ UNCHANGED env_vars
    \/ Tick /\ UNCHANGED env_vars

Spec == Init /\ [][Next]_vars

\* the client or the filesystem is obtained from its factory
FactoryNext ==
    \/ \E t \in Callers, m \in AuthenticationMethods, e \in Environs :
          Serialized(t) /\ New(t, "AdlsGen2ApiClient", m, e, FALSE) /\ UNCHANGED env_vars
    \/ \E t \in Callers, m \in AuthenticationMethods, e \in Environs, c \in BOOLEAN :
          Serialized(t) /\ New(t, "AdlsGen2FileSystem", m, e, c) /\ UNCHANGED env_vars
    \/ \E t \in Callers : CheckToken(t) /\ UNCHANGED env_vars
    \/ \E t \in Callers, s \in TokenStatuses, e \in ExpiresIns, k \in BodyKinds :
          (k = "full" \/ e = Margin) /\ TokenReply(t, s, e, k) /\ UNCHANGED env_vars
    \/ \E t \in Callers : TokenUpdate(t) /\ UNCHANGED env_vars
    \/ \E t \in Callers : Send(t) /\ UNCHANGED env_vars
    \/ \E t \in Callers, s \in StorageStatuses :
          Reply(t, s, EmptyDict, "") /\ UNCHANGED env_vars
    \/ \E t \in Callers : Return(t) /\ UNCHANGED env_vars
    \/ Tick /\ UNCHANGED env_vars

FactorySpec == Init /\ [][FactoryNext]_vars

-----------------------------------------------------------------------------
(* The test functions of the repository drive a client against the storage *)
(* account.                                                                *)

\* the contents a test writes: text, text outside ASCII and a bytes object
TestContents == {Str(""), Str("AB"), Str("é"), Bytes("AB")}

DirectoryName == "data"

FileName == "data/f.txt"

\* test_filesystem_object.py: mkdir, touch, ls, cat, write, cat, write, cat and,
\* in the finally block, rm and ls
test_file_crud_operations(first_append_text, second_append_text) ==
    <<PublicOp("mkdir", DirectoryName, None, 0, FALSE, NoHeaders, EmptyDict),
      PublicOp("touch", FileName, None, 0, FALSE, NoHeaders, EmptyDict),
      PublicOp("ls", DirectoryName, None, 0, FALSE, NoHeaders, EmptyDict),
      PublicOp("cat", FileName, None, 0, FALSE, NoHeaders, EmptyDict),
      PublicOp("write", FileName, first_append_text, 0, FALSE, NoHeaders, EmptyDict),
      PublicOp("cat", FileName, None, 0, FALSE, NoHeaders, EmptyDict),
      PublicOp("write", FileName, second_append_text, len(first_append_text), FALSE,
               NoHeaders, EmptyDict),
      PublicOp("cat", FileName, None, 0, FALSE, NoHeaders, EmptyDict),
      PublicOp("rm", FileName, None, 0, FALSE, NoHeaders, EmptyDict),
      PublicOp("ls", DirectoryName, None, 0, FALSE, NoHeaders, EmptyDict)>>

\* test_filesystem_with_api_client.py, after a listing of the account as it is
\* found: create_filesystem, list_filesystem, delete_filesystem, list_filesystem
test_create_and_delete_filesystem ==
    <<PublicOp("list_filesystem", "", None, 0, TRUE, NoHeaders, EmptyDict),
      PublicOp("create_filesystem", "", None, 0, TRUE, NoHeaders, EmptyDict),
      PublicOp("list_filesystem", "", None, 0, TRUE, NoHeaders, EmptyDict),
      PublicOp("delete_filesystem", "", None, 0, TRUE, NoHeaders, EmptyDict),
      PublicOp("list_filesystem", "", None, 0, TRUE, NoHeaders, EmptyDict)>>

\* test_path_with_api_client.py, after the sample_filesystem fixture and a
\* listing of the filesystem as it is found: create_path, list_path,
\* delete_path, list_path
test_create_and_delete_directory ==
    <<PublicOp("create_filesystem", "", None, 0, TRUE, NoHeaders, EmptyDict),
      PublicOp("list_path", "", None, 0, TRUE, NoHeaders, EmptyDict),
      PublicOp("create_path", DirectoryName, None, 0, TRUE,
               Dict1("content-length", "0"), Dict1("resource", Str("directory"))),
      PublicOp("list_path", "", None, 0, TRUE, NoHeaders, EmptyDict),
      PublicOp("delete_path", DirectoryName, None, 0, TRUE, NoHeaders, EmptyDict),
      PublicOp("list_path", "", None, 0, TRUE, NoHeaders, EmptyDict)>>

Tests ==
    {"test_file_crud_operations", "test_create_and_delete_filesystem",
     "test_create_and_delete_directory"}

\* the arguments a test is run with: any first text, and a second text that is
\* plain
ArgumentsOf(name) ==
    IF name = "test_file_crud_operations"
    THEN {<<c1, c2>> : c1 \in TestContents, c2 \in {Str(""), Str("AB")}}
    ELSE {<<>>}

\* the calls the test makes, in their order
ScriptOf(tested) ==
    CASE tested.name = "test_file_crud_operations" ->
            test_file_crud_operations(tested.contents[1], tested.contents[2])
      [] tested.name = "test_create_and_delete_filesystem" ->
            test_create_and_delete_filesystem
      [] tested.name = "test_create_and_delete_directory" ->
            test_create_and_delete_directory
      [] OTHER -> <<>>

\* conftest.py: the fixtures adls_gen2_fs_oauth2, which creates the filesystem,
\* and adls_gen2_fs_oauth2_api_client
FixtureOf(name) ==
    IF name = "test_file_crud_operations"
    THEN [PublicOp("OAuth2AdlsFileSystem", "", None, 0, FALSE, NoHeaders, EmptyDict)
            EXCEPT !.create = TRUE]
    ELSE [PublicOp("OAuth2AdlsApiClient", "", None, 0, FALSE, NoHeaders, EmptyDict)
            EXCEPT !.create = FALSE]

\* the first line of the finally block of test_file_crud_operations: its rm
FinallyBlock(script) == CHOOSE i \in DOMAIN script : script[i].name = "rm"

\* the lines inside its try block: after touch and before the finally block
TryBlock(script) ==
    {i \in DOMAIN script :
        /\ i < FinallyBlock(script)
        /\ \E j \in 1 .. (i - 1) : script[j].name = "touch"}

\* the line a test goes on with after the call of its line has returned or raised
NextLine(tested, raised) ==
    IF ~raised THEN tested.line + 1
    ELSE IF /\ tested.name = "test_file_crud_operations"
            /\ tested.line \in TryBlock(ScriptOf(tested))
    THEN FinallyBlock(ScriptOf(tested))
    ELSE Len(ScriptOf(tested)) + 1

\* pytest runs a test function: its fixture constructs the client
Fixture(t, name, contents) ==
    /\ test = NoTest
    /\ Construct(t, FixtureOf(name))
    /\ test' = [name |-> name, line |-> 1, contents |-> contents,
                seen |-> [l \in DOMAIN ScriptOf([name |-> name, contents |-> contents])
                            |-> NoResult],
                raised |-> FALSE]
    /\ UNCHANGED <<store, serialized>>

\* the test makes the call of its line
TestCall(t) ==
    /\ test.line \in DOMAIN ScriptOf(test)
    /\ Invoke(t, ScriptOf(test)[test.line])
    /\ UNCHANGED env_vars

\* the storage account answers the request
Serve(t, encoding) ==
    /\ pc[t] = "wait"
    /\ LET answer == Answer(store, storage_requests[t][Len(storage_requests[t])].request,
                            encoding)
       IN  /\ Reply(t, answer.status_code, answer.json, answer.content)
           /\ store' = answer.store
    /\ UNCHANGED <<test, serialized>>

\* the call has returned or raised: the fixture yields the client, or the test
\* keeps what its line got and goes on
TestCollect(t) ==
    /\ Return(t)
    /\ IF IsConstructor(op[t])
       THEN UNCHANGED test
       ELSE test' = [test EXCEPT !.seen[test.line] = result[t],
                                 !.raised = @ \/ result[t].kind = "raised",
                                 !.line = NextLine(test, result[t].kind = "raised")]
    /\ UNCHANGED <<store, serialized>>

StoreNext ==
    \/ \E t \in Callers, name \in Tests : \E contents \in ArgumentsOf(name) :
          Fixture(t, name, contents)
    \/ \E t \in Callers : TestCall(t)
    \/ \E t \in Callers : CheckToken(t) /\ UNCHANGED env_vars
    \/ \E t \in Callers, e \in ExpiresIns :
          TokenReply(t, 200, e, "full") /\ UNCHANGED env_vars
    \/ \E t \in Callers : TokenUpdate(t) /\ UNCHANGED env_vars
    \/ \E t \in Callers : Send(t) /\ UNCHANGED env_vars
    \/ \E t \in Callers, encoding \in BodyEncodings : Serve(t, encoding)
    \/ \E t \in Callers : TestCollect(t)
    \/ Tick /\ UNCHANGED env_vars

StoreSpec == Init /\ [][StoreNext]_vars

-----------------------------------------------------------------------------
(* Calls of the ApiClient with the arguments a caller may write: filesystem *)
(* identifiers and paths with slashes at their ends, named arguments and    *)
(* extras that are None, False or 0.                                        *)

ArgumentFilesystems == {"fs", "fs/"}

ArgumentPaths == {"data/f.txt", "/data/f.txt"}

\* recursive=None, recursive=False, recursive=True
RecursiveArguments == {None, Bool(FALSE), Bool(TRUE)}

\* **kwargs: none, timeout=None, timeout=0
Extras == {EmptyDict, Dict1("timeout", None), Dict1("timeout", Num(0))}

\* the path-level operations of the ApiClient
PathApis ==
    {"create_path", "delete_path", "read_path", "update_path", "get_path_properties",
     "lease_path"}

\* a call api_client.<name>(filesystem_identifier, path, recursive=..., **kwargs)
ApiCall(name, filesystem_identifier, path, recursive, kwargs) ==
    [name |-> name, path |-> path,
     contents |-> IF name = "update_path" THEN Str("A") ELSE None,
     position |-> 0, recursive |-> TRUE, headers |-> NoHeaders, kwargs |-> kwargs,
     create |-> FALSE, filesystem_identifier |-> filesystem_identifier,
     recursive_argument |-> recursive]

ArgumentOps ==
    {ApiCall(n, f, p, Bool(TRUE), EmptyDict) :
        n \in PathApis, f \in ArgumentFilesystems, p \in ArgumentPaths}
    \cup {ApiCall(n, FilesystemId, "data/f.txt", r, k) :
            n \in {"delete_path", "list_path"}, r \in RecursiveArguments, k \in Extras}

ArgumentNext ==
    \/ \E t \in Callers :
          Construct(t, [PublicOp("OAuth2AdlsApiClient", "", None, 0, FALSE, NoHeaders,
                                 EmptyDict) EXCEPT !.create = FALSE])
          /\ UNCHANGED env_vars
    \/ \E t \in Callers, o \in ArgumentOps : Invoke(t, o) /\ UNCHANGED env_vars
    \/ \E t \in Callers : CheckToken(t) /\ UNCHANGED env_vars
    \/ \E t \in Callers, s \in TokenStatuses, e \in ExpiresIns :
          TokenReply(t, s, e, "full") /\ UNCHANGED env_vars
    \/ \E t \in Callers : TokenUpdate(t) /\ UNCHANGED env_vars
    \/ \E t \in Callers : Send(t) /\ UNCHANGED env_vars
    \/ \E t \in Callers, s \in StorageStatuses :
          Reply(t, s, EmptyDict, "") /\ UNCHANGED env_vars
    \/ \E t \in Callers : Return(t) /\ UNCHANGED env_vars
    \/ Tick /\ UNCHANGED env_vars

ArgumentSpec == Init /\ [][ArgumentNext]_vars

-----------------------------------------------------------------------------
(* Two callers on one client.  The client holds no lock of its own          *)
(* (filesystem_api.py:406-425 reads and writes the session and the expiry   *)
(* unguarded), so whether two operations overlap is up to the callers:      *)
(* they take turns until they stop doing so.                                *)

\* what each of the two callers does with the shared client
ConcurrentOps == {ApiCall("read_path", FilesystemId, "data/f.txt", Bool(TRUE), EmptyDict)}

\* the callers stop taking turns on the client
Unserialize ==
    /\ serialized
    /\ constructed # "none"
    /\ serialized' = FALSE
    /\ UNCHANGED <<now, constructed, client_vars, refresh_oauth2_token_command,
                   idp_issued, pc, op, step, call, token_response, response, result,
                   checks, token_requests, storage_requests, store, test>>

ConcurrentNext ==
    \/ \E t \in Callers :
          Construct(t, [PublicOp("OAuth2AdlsApiClient", "", None, 0, FALSE, NoHeaders,
                                 EmptyDict) EXCEPT !.create = FALSE])
          /\ UNCHANGED env_vars
    \/ Unserialize
    \/ \E t \in Threads, o \in ConcurrentOps :
          (serialized => Serialized(t)) /\ Invoke(t, o) /\ UNCHANGED env_vars
    \/ \E t \in Threads : CheckToken(t) /\ UNCHANGED env_vars
    \/ \E t \in Threads, s \in TokenStatuses, e \in ExpiresIns :
          TokenReply(t, s, e, "full") /\ UNCHANGED env_vars
    \/ \E t \in Threads : TokenUpdate(t) /\ UNCHANGED env_vars
    \/ \E t \in Threads : Send(t) /\ UNCHANGED env_vars
    \/ \E t \in Threads, s \in StorageStatuses :
          Reply(t, s, EmptyDict, "") /\ UNCHANGED env_vars
    \/ \E t \in Threads : Return(t) /\ UNCHANGED env_vars
    \/ Tick /\ UNCHANGED env_vars

ConcurrentSpec == Init /\ [][ConcurrentNext]_vars

-----------------------------------------------------------------------------
(* Progress of a call.  The client runs its steps one after the other, and  *)
(* the call hands each request to requests.Session.request without a        *)
(* timeout (filesystem_api.py:427-493), so a call goes on as long as the    *)
(* identity provider and the storage account answer.                        *)

\* the client takes its next step and the two servers answer
Fairness ==
    \A t \in Callers :
        /\ WF_vars(CheckToken(t) /\ UNCHANGED env_vars)
        /\ WF_vars(\E s \in TokenStatuses, e \in ExpiresIns :
                      TokenReply(t, s, e, "full") /\ UNCHANGED env_vars)
        /\ WF_vars(TokenUpdate(t) /\ UNCHANGED env_vars)
        /\ WF_vars(Send(t) /\ UNCHANGED env_vars)
        /\ WF_vars(\E s \in StorageStatuses : Reply(t, s, EmptyDict, "") /\ UNCHANGED env_vars)

LiveSpec == ArgumentSpec /\ Fairness

-----------------------------------------------------------------------------
(* Properties.                                                             *)

\* the token POSTs that thread t made in its n-th dispatcher call
TokenRequestsAt(t, n) == {i \in DOMAIN token_requests[t] : token_requests[t][i].step = n}

\* the storage requests that thread t sent in its n-th dispatcher call
StorageRequestsAt(t, n) ==
    {i \in DOMAIN storage_requests[t] : storage_requests[t][i].step = n}

\* C1: a freshness check that runs strictly before the recorded expiry issues no
\* token request, so the token obtained by the one request made for it is reused
\* by every call of that window; a check that runs after the recorded expiry has
\* passed issues exactly one token request.
C1_TokenReusedUntilExpiry ==
    \A t \in Threads : \A i \in DOMAIN checks[t] :
        LET time_until_expiration == checks[t][i].time_until_expiration
            posts == Cardinality(TokenRequestsAt(t, checks[t][i].step))
        IN  /\ (Len(time_until_expiration) > 0 /\ time_until_expiration[1] > 0)
                  => posts = 0
            /\ (Len(time_until_expiration) > 0 /\ time_until_expiration[1] < 0)
                  => posts = 1

\* a write whose append ran inside the window, without any token request, and
\* whose flush ran after the expiry and made exactly one
C1_Witness ==
    \E t \in Threads :
        /\ pc[t] = "done"
        /\ result[t].kind = "Command"
        /\ Len(checks[t]) = 2
        /\ Len(checks[t][1].time_until_expiration) > 0
        /\ checks[t][1].time_until_expiration[1] > 0
        /\ TokenRequestsAt(t, 1) = {}
        /\ Len(checks[t][2].time_until_expiration) > 0
        /\ checks[t][2].time_until_expiration[1] < 0
        /\ Cardinality(TokenRequestsAt(t, 2)) = 1

\* C2: the freshness check makes a token request if and only if no expiry is
\* recorded or time_until_expiration is strictly negative.
C2_RefreshIffStrictlyNegative ==
    \A t \in Threads : \A i \in DOMAIN checks[t] :
        LET time_until_expiration == checks[t][i].time_until_expiration
        IN  (TokenRequestsAt(t, checks[t][i].step) # {})
                <=> (Len(time_until_expiration) = 0 \/ time_until_expiration[1] < 0)

\* the freshness checks that thread t ran in its n-th dispatcher call
ChecksAt(t, n) == {i \in DOMAIN checks[t] : checks[t][i].step = n}

\* the freshness check found the recorded expiry in the past
ExpiryInPast(check) ==
    /\ Len(check.time_until_expiration) > 0
    /\ check.time_until_expiration[1] < 0

\* C3: when a dispatcher call finds the recorded expiry in the past, its storage
\* request is sent only after the token request has been answered with success,
\* and it carries the Authorization header of the token just obtained, not the
\* header the session held when the token request went out.
C3_RefreshBeforeSend ==
    \A t \in Threads : \A j \in DOMAIN storage_requests[t] :
        LET sent == storage_requests[t][j]
        IN  \A i \in ChecksAt(t, sent.step) :
                ExpiryInPast(checks[t][i]) =>
                    \E k \in TokenRequestsAt(t, sent.step) :
                        LET post == token_requests[t][k]
                        IN  /\ post.reply.status_code = 200
                            /\ "access_token" \in DOMAIN post.reply.json
                            /\ "Authorization" \in DOMAIN sent.request.headers
                            /\ sent.request.headers["Authorization"] =
                                  Bearer(post.reply.json["access_token"])
                            /\ "Authorization" \in DOMAIN post.request.headers
                            /\ sent.request.headers["Authorization"] #
                                  post.request.headers["Authorization"]

\* a storage request is in flight whose dispatcher call found the token expired
C3_Witness ==
    \E t \in Threads :
        /\ pc[t] = "wait"
        /\ \E i \in ChecksAt(t, step[t]) : ExpiryInPast(checks[t][i])
        /\ StorageRequestsAt(t, step[t]) # {}

\* C4: when the update that follows a successful token request completes, the
\* session's Authorization header is 'Bearer ' and the access_token of that
\* response, and the recorded expiry is the time of the update plus
\* (expires_in - 45) seconds.
C4_TokenStateAfterRefresh ==
    [][\A t \in Threads :
          (/\ pc[t] = "token_update"
           /\ pc'[t] # "token_update"
           /\ {"access_token", "expires_in"} \subseteq DOMAIN token_response[t].json)
          => /\ "Authorization" \in DOMAIN session_headers'
             /\ session_headers'["Authorization"] =
                   [scheme |-> "Bearer", token |-> token_response[t].json["access_token"]]
             /\ oauth2_token_time_expiration' =
                   <<now + (token_response[t].json["expires_in"] - Margin)>>]_vars

\* a refresh has completed for a token whose expires_in is below the margin
C4_Witness ==
    \E t \in Threads :
        /\ pc[t] = "send"
        /\ TokenRequestsAt(t, step[t]) # {}
        /\ {"access_token", "expires_in"} \subseteq DOMAIN token_response[t].json
        /\ token_response[t].json["expires_in"] = 44
        /\ "Authorization" \in DOMAIN session_headers
        /\ session_headers["Authorization"] = Bearer(token_response[t].json["access_token"])
        /\ oauth2_token_time_expiration = <<now - 1>>

\* the operation of thread t has been aborted by a failure answer of the token
\* endpoint
TokenFailure(t) ==
    /\ pc[t] = "done"
    /\ result[t].kind = "raised"
    /\ result[t].response.request.url = AUTH2_TOKEN_URL
    /\ result[t].response.status_code >= 400

\* C5: a failure status of the token endpoint ends the operation with an error:
\* no storage request of that dispatcher call is ever sent, no second token
\* request is made, and the Authorization header and the recorded expiry keep
\* the values they had when the refresh began.
C5_TokenFailureAborts ==
    /\ [](\A t \in Threads :
            TokenFailure(t) =>
                /\ StorageRequestsAt(t, step[t]) = {}
                /\ Cardinality(TokenRequestsAt(t, step[t])) = 1)
    /\ [][\A t \in Threads :
            (/\ pc[t] = "token_wait"
             /\ pc'[t] # "token_wait"
             /\ token_response'[t].status_code >= 400)
            => /\ pc'[t] = "done"
               /\ result'[t].kind = "raised"
               /\ UNCHANGED client_vars]_vars
    /\ [][\A t \in Threads :
            pc[t] \in {"refresh", "token_wait"} => UNCHANGED client_vars]_vars

\* the flush of a write was aborted by the token endpoint while the session
\* held a token
C5_Witness ==
    \E t \in Threads :
        /\ TokenFailure(t)
        /\ op[t].name = "write"
        /\ step[t] = 2
        /\ "Authorization" \in DOMAIN session_headers
        /\ Len(oauth2_token_time_expiration) > 0

\* C6 as stated: an operation ends with a returned Command or a raised error,
\* and a 4xx or 5xx answer of the storage account makes it raise.
C6_CommandOrError ==
    \A t \in Threads :
        (pc[t] = "done" /\ ~IsConstructor(op[t])) =>
            /\ result[t].kind \in {"Command", "raised"}
            /\ response[t].status_code >= 400 => result[t].kind = "raised"

\* C6, amended: for every HTTP method a 4xx or 5xx answer of the storage account
\* makes the operation raise; an operation ends with a raised error or with its
\* returned value, which is a Command, or for list_filesystem the decoded JSON
\* body, and a value is returned only for an answer below 400.
C6_ReturnsOrRaises ==
    \A t \in Threads :
        (pc[t] = "done" /\ ~IsConstructor(op[t])) =>
            /\ result[t].kind \in {"Command", "dict", "raised"}
            /\ result[t].kind = "dict" => op[t].name = "list_filesystem"
            /\ response[t].status_code >= 400 => result[t].kind = "raised"
            /\ result[t].kind \in {"Command", "dict"} =>
                  /\ response[t].status_code > 0
                  /\ response[t].status_code < 400
                  /\ response[t].request.method \in
                        {"GET", "PUT", "PATCH", "POST", "DELETE", "HEAD"}

\* a HEAD request answered 503 has made its operation raise
C6_Witness ==
    \E t \in Threads :
        /\ pc[t] = "done"
        /\ response[t].request.method = "HEAD"
        /\ response[t].status_code = 503
        /\ result[t].kind = "raised"

\* the token endpoint, not the storage account, ended the operation of thread t
EndedByTokenEndpoint(t) ==
    /\ result[t].kind = "raised"
    /\ result[t].response.request.url = AUTH2_TOKEN_URL

\* C7: a dispatcher call sends at most one token request and at most one storage
\* request, the storage request only after the token request was answered with
\* success; an operation made of one dispatcher call has sent exactly one
\* storage request when it ends, unless the token endpoint ended it, and then
\* none: no request is sent again after a failure answer.
C7_OneRequestPerCall ==
    \A t \in Threads :
        /\ \A n \in 0..2 :
              /\ Cardinality(StorageRequestsAt(t, n)) <= 1
              /\ Cardinality(TokenRequestsAt(t, n)) <= 1
        /\ \A j \in DOMAIN storage_requests[t] :
              \A k \in TokenRequestsAt(t, storage_requests[t][j].step) :
                  token_requests[t][k].reply.status_code = 200
        /\ (pc[t] = "done" /\ ~IsConstructor(op[t]) /\ op[t].name # "write") =>
              /\ Len(token_requests[t]) <= 1
              /\ Len(storage_requests[t]) = IF EndedByTokenEndpoint(t) THEN 0 ELSE 1

\* a lease_path that refreshed the token and got a 503 from the storage account
C7_Witness ==
    \E t \in Threads :
        /\ pc[t] = "done"
        /\ op[t].name = "lease_path"
        /\ Len(token_requests[t]) = 1
        /\ Len(storage_requests[t]) = 1
        /\ storage_requests[t][1].reply.status_code = 503
        /\ result[t].kind = "raised"

\* the append request of the write o
IsAppend(request, o) ==
    /\ request.method = "PATCH"
    /\ {"action", "position"} \subseteq DOMAIN request.params
    /\ request.params["action"] = [tag |-> "str", n |-> 0, s |-> "append"]
    /\ request.params["position"] = [tag |-> "int", n |-> o.position, s |-> ""]
    /\ request.data = o.contents

\* the flush request of the write o
IsFlush(request, o) ==
    /\ request.method = "PATCH"
    /\ {"action", "position"} \subseteq DOMAIN request.params
    /\ request.params["action"] = [tag |-> "str", n |-> 0, s |-> "flush"]
    /\ request.params["position"] =
          [tag |-> "int", n |-> o.position + Len(o.contents.s), s |-> ""]
    /\ request.data = [tag |-> "None", n |-> 0, s |-> ""]

\* C8: write sends an append PATCH with the contents at offset position, then a
\* flush PATCH without body at offset position + length(contents), and nothing
\* else; the flush is sent only after the append was answered without failure,
\* and the Command that write returns holds the answer to the flush.
C8_WriteAppendsThenFlushes ==
    \A t \in Threads :
        op[t].name = "write" =>
            LET sent == storage_requests[t]
            IN  /\ Len(sent) <= 2
                /\ Len(sent) >= 1 => IsAppend(sent[1].request, op[t])
                /\ Len(sent) = 2 =>
                      /\ IsFlush(sent[2].request, op[t])
                      /\ sent[1].reply.status_code > 0
                      /\ sent[1].reply.status_code < 400
                /\ (pc[t] = "done" /\ result[t].kind = "Command") =>
                      /\ Len(sent) = 2
                      /\ result[t].response = sent[2].reply
                      /\ result[t].response.request = sent[2].request
                /\ (Len(sent) >= 1 /\ sent[1].reply.status_code >= 400) =>
                      /\ Len(sent) = 1
                      /\ pc[t] = "done"
                      /\ result[t].kind = "raised"

\* write(path, "AB", position=2) has returned the Command of its flush
C8_Witness ==
    \E t \in Threads :
        /\ pc[t] = "done"
        /\ op[t].name = "write"
        /\ op[t].contents = [tag |-> "str", n |-> 0, s |-> "AB"]
        /\ op[t].position = 2
        /\ result[t].kind = "Command"
        /\ Len(storage_requests[t]) = 2

\* thread t sends a storage request in this step
Sends(t) == pc[t] = "send" /\ pc'[t] = "wait"

\* C9 as stated: no storage request is sent with a token that is within 45
\* seconds of its real expiry.
C9_NeverWithinMarginOfExpiry ==
    [][\A t \in Threads :
          Sends(t) =>
              LET request == storage_requests'[t][Len(storage_requests'[t])].request
              IN  /\ "Authorization" \in DOMAIN request.headers
                  /\ request.headers["Authorization"].token.exp - now >= Margin]_vars

\* C9, amended: a dispatcher call sends its storage request with the token the
\* session already held only if its freshness check ran strictly before the
\* recorded expiry, which is the time the client stored a token plus
\* (expires_in - 45); nothing is guaranteed about the real expiry of the token
\* at the time the request is sent.
C9_ReuseOnlyBeforeRecordedExpiry ==
    \A t \in Threads : \A j \in DOMAIN storage_requests[t] :
        LET sent == storage_requests[t][j]
        IN  /\ ChecksAt(t, sent.step) # {}
            /\ TokenRequestsAt(t, sent.step) = {} =>
                  \A i \in ChecksAt(t, sent.step) :
                      /\ Len(checks[t][i].time_until_expiration) > 0
                      /\ checks[t][i].time_until_expiration[1] > 0

\* a storage request is in flight that reuses the token of the session
C9_Witness ==
    \E t \in Threads :
        /\ pc[t] = "wait"
        /\ TokenRequestsAt(t, step[t]) = {}
        /\ \E i \in ChecksAt(t, step[t]) : checks[t][i].time_until_expiration[1] > 0
        /\ "Authorization" \in DOMAIN storage_requests[t][Len(storage_requests[t])].request.headers

\* the operation of thread t has completed without error
Completed(t) == pc[t] = "done" /\ ~IsConstructor(op[t]) /\ result[t].kind # "raised"

\* the Command that holds the client and the answer to the last request of t
IsCommandOfLastRequest(t) ==
    /\ result[t].kind = "Command"
    /\ result[t].api_client = Self
    /\ result[t].response = response[t]
    /\ Len(storage_requests[t]) > 0
    /\ response[t] = storage_requests[t][Len(storage_requests[t])].reply
    /\ response[t].request = storage_requests[t][Len(storage_requests[t])].request

\* C10 as stated: every public operation that completes without error returns a
\* Command of the issuing client and the raw response of its request.
C10_EveryOperationReturnsCommand ==
    \A t \in Threads : Completed(t) => IsCommandOfLastRequest(t)

\* C10, amended: every public operation except list_filesystem that completes
\* without error returns a Command of the issuing client and the raw response of
\* its request; list_filesystem returns the decoded JSON body of its response.
C10_CommandOfRequest ==
    \A t \in Threads :
        Completed(t) =>
            IF op[t].name = "list_filesystem"
            THEN result[t].kind = "dict" /\ result[t].json = response[t].json
            ELSE IsCommandOfLastRequest(t)

\* mkdir of the wrapper has returned the Command of its PUT
C10_Witness ==
    \E t \in Threads :
        /\ Completed(t)
        /\ op[t].name = "mkdir"
        /\ IsCommandOfLastRequest(t)
        /\ response[t].request.method = "PUT"

CarriesVersion(request) ==
    /\ "x-ms-version" \in DOMAIN request.headers
    /\ request.headers["x-ms-version"] = "2018-11-09"

\* C14 as stated: every request sent to the storage account carries the header
\* x-ms-version: 2018-11-09.
C14_VersionOnEveryRequest ==
    \A t \in Threads : \A j \in DOMAIN storage_requests[t] :
        CarriesVersion(storage_requests[t][j].request)

\* C14, amended: every request sent through the filesystem wrapper (its methods
\* and the filesystem creation of its constructor) carries x-ms-version:
\* 2018-11-09; a request of an operation invoked directly on the API client
\* carries an x-ms-version header only if the caller passes one.
C14_VersionOnWrapperRequests ==
    \A t \in Threads : \A j \in DOMAIN storage_requests[t] :
        LET request == storage_requests[t][j].request
        IN  IF op[t].name \in {"mkdir", "touch", "rmdir", "rm", "ls", "cat", "write",
                               "OAuth2AdlsFileSystem"}
            THEN CarriesVersion(request)
            ELSE "x-ms-version" \in DOMAIN request.headers
                    <=> "x-ms-version" \in DOMAIN op[t].headers

\* the flush of a write is in flight and carries the version header
C14_Witness ==
    \E t \in Threads :
        /\ op[t].name = "write"
        /\ pc[t] = "wait"
        /\ step[t] = 2
        /\ CarriesVersion(storage_requests[t][2].request)

\* C17: when OAuth2AdlsApiClient.__init__ completes, the session's Authorization
\* header is 'Bearer ' and the access_token of the response that
\* refresh_oauth2_token_command holds.
C17_HeaderOfRefreshCommand ==
    [][(refresh_oauth2_token_command' # refresh_oauth2_token_command
            /\ refresh_oauth2_token_command'.kind = "Command")
       => /\ "access_token" \in DOMAIN refresh_oauth2_token_command'.response.json
          /\ "Authorization" \in DOMAIN session_headers'
          /\ session_headers'["Authorization"] =
                [scheme |-> "Bearer",
                 token |-> refresh_oauth2_token_command'.response.json["access_token"]]]_vars

\* a client has been constructed and holds the token of its command
C17_Witness ==
    \E t \in Threads :
        /\ pc[t] = "done"
        /\ result[t] = [kind |-> "object", name |-> "OAuth2AdlsApiClient"]
        /\ refresh_oauth2_token_command.kind = "Command"
        /\ refresh_oauth2_token_command.response.status_code = 200
        /\ session_headers["Authorization"].token =
              refresh_oauth2_token_command.response.json["access_token"]

\* C18: the Authorization header and the recorded expiry change only in the
\* update step of a refresh whose token request was answered with success (or
\* when a new client object is created with a new session); sending a storage
\* request, receiving its answer and returning the result leave both unchanged.
C18_TokenStateFrame ==
    [][/\ client_vars' # client_vars =>
              \E t \in Threads :
                  \/ pc[t] = "token_update" /\ token_response[t].status_code = 200
                  \/ pc[t] = "idle" /\ IsConstructor(op'[t])
       /\ \A t \in Threads :
              (pc[t] \in {"send", "wait", "done"} /\ pc'[t] # pc[t])
                  => UNCHANGED client_vars]_vars

\* an operation has ended with a 503 of the storage account while the session
\* holds the token it was sent with
C18_Witness ==
    \E t \in Threads :
        /\ pc[t] = "done"
        /\ result[t].kind = "raised"
        /\ response[t].status_code = 503
        /\ "Authorization" \in DOMAIN session_headers
        /\ response[t].request.headers["Authorization"] = session_headers["Authorization"]
        /\ Len(oauth2_token_time_expiration) > 0

\* the text s contains the text sub
Contains(s, sub) ==
    \E i \in 1..(Len(s) - Len(sub) + 1) : SubSeq(s, i, i + Len(sub) - 1) = sub

\* the log record shows the text secret in its url, headers or params
Mentions(record, secret) ==
    \/ Contains(record.url, secret)
    \/ \E k \in DOMAIN record.headers : Contains(record.headers[k], secret)
    \/ \E k \in DOMAIN record.params : Contains(record.params[k].s, secret)

\* C19: no log record of any operation contains the client secret, the client
\* id or the tenant id.
C19_CredentialsNeverLogged ==
    \A t \in Threads : \A record \in LogOf(t) :
        /\ ~Mentions(record, ClientSecret)
        /\ ~Mentions(record, ClientId)
        /\ ~Mentions(record, TenantId)

\* the spellings of the OAuth2 method that differ in letter case only
OAuth2Spellings == {"OAuth2", "Oauth2", "oauth2", "OAUTH2"}

\* the factory call of thread t found a credential missing: unset or empty
CredentialMissing(t) ==
    \E v \in {"azure_client_id", "azure_client_secret", "azure_tenant_id"} :
        \/ op[t].environ[v] = [tag |-> "None", n |-> 0, s |-> ""]
        \/ op[t].environ[v] = [tag |-> "str", n |-> 0, s |-> ""]

\* thread t has sent no HTTP request
NothingSent(t) == token_requests[t] = <<>> /\ storage_requests[t] = <<>>

\* C11: a factory called for OAuth2 while one of the three credentials is
\* missing raises the configuration error at once, and neither a token request
\* nor a storage request has been sent.
C11_MissingCredentialRaises ==
    \A t \in Threads :
        (pc[t] # "idle" /\ op[t].authentication_method \in OAuth2Spellings
            /\ CredentialMissing(t))
        => /\ pc[t] = "done"
           /\ result[t].kind = "raised"
           /\ result[t].error = "ValueError(environment variables)"
           /\ NothingSent(t)
           /\ constructed = "none"

\* the filesystem factory has raised because only the tenant id is missing
C11_Witness ==
    \E t \in Threads :
        /\ pc[t] = "done"
        /\ op[t].factory = "AdlsGen2FileSystem"
        /\ op[t].environ["azure_client_id"].s = ClientId
        /\ op[t].environ["azure_client_secret"].s = ClientSecret
        /\ op[t].environ["azure_tenant_id"].tag = "None"
        /\ result[t].kind = "raised"
        /\ NothingSent(t)

\* C12: a factory called with an authentication method that is none of the
\* documented ones raises at once, whatever the credentials are and before any
\* HTTP request; a method that spells OAuth2 in any letter case is never
\* rejected as a method.
C12_UnknownMethodRaises ==
    \A t \in Threads :
        pc[t] # "idle" =>
            /\ op[t].authentication_method \notin OAuth2Spellings \cup {"SharedKey"} =>
                  /\ pc[t] = "done"
                  /\ result[t].kind = "raised"
                  /\ result[t].error = "ValueError(authentication_method)"
                  /\ NothingSent(t)
                  /\ constructed = "none"
            /\ op[t].authentication_method \in OAuth2Spellings =>
                  (result[t].kind = "raised"
                      => result[t].error # "ValueError(authentication_method)")
            /\ (op[t].authentication_method \in OAuth2Spellings
                    /\ ~CredentialMissing(t) /\ pc[t] = "done"
                    /\ result[t].kind # "raised")
                  => result[t].kind = "object"

\* 'Basic' was rejected by the client factory although all credentials are set
C12_Witness ==
    \E t \in Threads :
        /\ pc[t] = "done"
        /\ op[t].factory = "AdlsGen2ApiClient"
        /\ op[t].authentication_method = "Basic"
        /\ ~CredentialMissing(t)
        /\ result[t].kind = "raised"
        /\ NothingSent(t)

\* C20: a factory called with authentication_method 'SharedKey' does not fail as
\* an unsupported method.
C20_SharedKeyIsValid ==
    \A t \in Threads :
        (pc[t] = "done" /\ op[t].authentication_method = "SharedKey")
        => ~(result[t].kind = "raised"
                /\ result[t].error = "ValueError(authentication_method)")

\* the bytes that contents c stands for when it is text, under the encodings a
\* reader may take it in, or the bytes it is
WrittenBytes(c) ==
    IF c.tag = "str" THEN {encode(c.s, encoding) : encoding \in BodyEncodings} ELSE {c.s}

\* cat returned a Command whose response holds exactly the given contents, one
\* after the other
CatReturned(got, written) ==
    /\ got.kind = "Command"
    /\ got.response.status_code = 200
    /\ \E bytes \in [DOMAIN written -> UNION {WrittenBytes(written[i]) : i \in DOMAIN written}] :
          /\ \A i \in DOMAIN written : bytes[i] \in WrittenBytes(written[i])
          /\ got.response.content =
                (IF Len(written) = 1 THEN bytes[1] ELSE bytes[1] \o bytes[2])

\* C15: against a store that commits flushed bytes, write(path, c1, position=0)
\* followed by cat(path) returns exactly c1, and a further
\* write(path, c2, position=len(c1)) followed by cat(path) returns c1 followed by
\* c2, for all contents c1 and c2.
C15_WriteThenCatRoundTrip ==
    test.name = "test_file_crud_operations" =>
        /\ test.line > 6 => CatReturned(test.seen[6], <<test.contents[1]>>)
        /\ test.line > 8 => CatReturned(test.seen[8], test.contents)

\* the listing got names X: list_filesystem returns the parsed body, list_path a
\* Command
Listed(got) ==
    CASE got.kind = "dict" /\ "filesystems" \in DOMAIN got.json ->
            got.json["filesystems"].names
      [] got.kind = "Command" /\ "paths" \in DOMAIN got.response.json ->
            got.response.json["paths"].names
      [] OTHER -> {"no listing"}

IsListing(got) == "no listing" \notin Listed(got)

\* lines first, second and third of a test hold the listing before X is
\* created, after it is created and after it is deleted
CreateThenDeleteRestores(X, first, second, third) ==
    /\ ~test.raised
    /\ test.line > first => IsListing(test.seen[first]) /\ X \notin Listed(test.seen[first])
    /\ test.line > second => IsListing(test.seen[second]) /\ X \in Listed(test.seen[second])
    /\ test.line > third =>
          /\ IsListing(test.seen[third])
          /\ X \notin Listed(test.seen[third])
          /\ Listed(test.seen[third]) = Listed(test.seen[first])

\* C16: for a directory or a filesystem X that does not exist, the listing has
\* no entry named X; after X is created the listing contains X; after X is then
\* deleted the listing again has no entry named X and is the listing from
\* before the creation.
C16_CreateThenDeleteRestoresListing ==
    /\ test.name = "test_create_and_delete_filesystem" =>
          CreateThenDeleteRestores(FilesystemId, 1, 3, 5)
    /\ test.name = "test_create_and_delete_directory" =>
          CreateThenDeleteRestores(DirectoryName, 2, 4, 6)

\* the directory test has run to its end and the directory was listed after
\* its creation
C16_Witness ==
    /\ test.name = "test_create_and_delete_directory"
    /\ test.line = 7
    /\ DirectoryName \in Listed(test.seen[4])
    /\ DirectoryName \notin Listed(test.seen[6])
    /\ store.filesystems = {FilesystemId}

\* the names under which the arguments that address or fill a request would
\* appear as query parameters
AddressingParams == {"filesystemIdentifier", "filesystem_identifier", "path", "data", "headers"}

\* C21: the query parameters of every path-level request hold only protocol
\* arguments and free-form extras: the filesystem identifier, the resource
\* path, the body and the headers are never among them, also not in the append
\* and flush calls made through update_path.
C21_NoAddressingArgumentInParams ==
    \A t \in Threads : \A i \in DOMAIN storage_requests[t] :
        CallOf(op[t], storage_requests[t][i].step).api \in PathApis =>
            (DOMAIN storage_requests[t][i].request.params) \cap AddressingParams = {}

\* how far the dispatcher call of thread t has come
Progress(position) ==
    CASE position = "refresh" -> 1
      [] position = "token_wait" -> 2
      [] position = "token_update" -> 3
      [] position = "send" -> 4
      [] position = "wait" -> 5
      [] position = "done" -> 6
      [] OTHER -> 0

\* the freshness checks and the requests of the n-th dispatcher call of t: one
\* check at most, which every request of the call has behind it, one token
\* request at most and one storage request at most
OneCheckAt(t, n) ==
    /\ Cardinality(ChecksAt(t, n)) <= 1
    /\ Cardinality(TokenRequestsAt(t, n)) <= Cardinality(ChecksAt(t, n))
    /\ Cardinality(StorageRequestsAt(t, n)) <= Cardinality(ChecksAt(t, n))
    /\ (pc[t] \in {"token_wait", "token_update", "send", "wait"} /\ step[t] = n) =>
          Cardinality(ChecksAt(t, n)) = 1

\* C22: every storage request has exactly one freshness check behind it, made
\* in its own dispatcher call before it was sent, and the token request makes
\* none of its own: a dispatcher call checks once, sends at most one token
\* request and at most one storage request, and every step of an operation
\* takes it further towards its end, so that it ends after at most one token
\* request and one storage request per dispatcher call.
C22_OneCheckPerRequest ==
    [][\A t \in Threads :
          /\ \A n \in 0 .. 2 : OneCheckAt(t, n)'
          /\ Len(checks'[t]) <= step'[t] + 1
          /\ Len(token_requests'[t]) + Len(storage_requests'[t]) <= 2 * CallsOf(op'[t]) + 1
          /\ (pc[t] \notin {"idle", "done"} /\ <<pc[t], step[t]>> # <<pc'[t], step'[t]>>) =>
                \/ step'[t] > step[t]
                \/ step'[t] = step[t] /\ Progress(pc'[t]) > Progress(pc[t])]_vars

\* a write has ended with two dispatcher calls, each with its one check, the
\* first with a token request, and with two storage requests
C22_Witness ==
    \E t \in Threads :
        /\ pc[t] = "done"
        /\ op[t].name = "write"
        /\ result[t].kind = "Command"
        /\ Cardinality(ChecksAt(t, 1)) = 1
        /\ Cardinality(ChecksAt(t, 2)) = 1
        /\ Cardinality(TokenRequestsAt(t, 1)) = 1
        /\ Len(storage_requests[t]) = 2

\* s holds the text sub
HasText(s, sub) ==
    \E i \in 1 .. (Len(s) - Len(sub) + 1) : SubSeq(s, i, i + Len(sub) - 1) = sub

\* the url of a request after its scheme
UrlPath(url) == SubSeq(url, Len("https://") + 1, Len(url))

\* C23: the URL of a path-level request is the base URL, the filesystem
\* identifier and the resource path, each trimmed of leading and trailing
\* slashes, joined by single '/' characters, so that no '//' occurs inside the
\* URL path.
C23_SegmentsTrimmedAndJoined ==
    \A t \in Threads : \A i \in DOMAIN storage_requests[t] :
        op[t].name \in PathApis =>
            LET url == storage_requests[t][i].request.url
            IN  /\ url = Strip(base_url) \o "/" \o Strip(FilesystemOf(op[t]))
                            \o "/" \o Strip(op[t].path)
                /\ ~HasText(UrlPath(url), "//")

\* the free-form extras of operation o that are sent: under their camelized
\* names, with their values
ExtrasSent(o, params) ==
    \A k \in DOMAIN o.kwargs :
        IF o.kwargs[k] = None
        THEN camelize(k) \notin DOMAIN params
        ELSE camelize(k) \in DOMAIN params /\ params[camelize(k)] = o.kwargs[k]

\* the named argument recursive of delete_path and list_path is sent unless it
\* is None
RecursiveSent(o, params) ==
    o.name \in {"delete_path", "list_path"} =>
        IF RecursiveOf(o) = None
        THEN "recursive" \notin DOMAIN params
        ELSE "recursive" \in DOMAIN params /\ params["recursive"] = RecursiveOf(o)

\* C24: no query parameter with the value None is sent: a named argument or an
\* extra that is None is left out of the query parameters of the request, and
\* every named protocol argument and extra with another value, False and 0
\* included, is sent with that value.
C24_NoneOmittedOthersSent ==
    \A t \in Threads : \A i \in DOMAIN storage_requests[t] :
        LET params == storage_requests[t][i].request.params
        IN  /\ \A k \in DOMAIN params : params[k] # None
            /\ ExtrasSent(op[t], params)
            /\ RecursiveSent(op[t], params)

\* a delete_path with recursive=False and timeout=0 has ended and its request
\* held both parameters
C24_Witness ==
    \E t \in Threads :
        /\ pc[t] = "done"
        /\ op[t].name = "delete_path"
        /\ RecursiveOf(op[t]) = Bool(FALSE)
        /\ op[t].kwargs = Dict1("timeout", Num(0))
        /\ Len(storage_requests[t]) = 1
        /\ storage_requests[t][1].request.params =
              [recursive |-> Bool(FALSE), timeout |-> Num(0)]

\* the callers whose token POST has gone out and whose new expiry is not yet
\* recorded
Refreshing == {t \in Threads : pc[t] \in {"token_wait", "token_update"}}

\* C25: while the callers take turns on the client, at most one token request
\* is under way for the recorded expiry; two callers that do not take turns can
\* both pass the check of one expiry, and then two token requests are out for it
C25_SerializedCallersRefreshOnce == serialized => Cardinality(Refreshing) <= 1

\* both callers have passed the check of the same expiry and each has sent its
\* token POST
C25_Witness ==
    /\ ~serialized
    /\ \A t \in Threads :
          /\ pc[t] = "token_wait"
          /\ Len(token_requests[t]) = 1
          /\ checks[t][Len(checks[t])].time_until_expiration =
                TimeUntilExpiration(oauth2_token_time_expiration, now)

\* the Authorization header the token request i of caller t went out with
SentAuthorization(t, i) == token_requests[t][i].request.headers["Authorization"]

\* C26: the token request of the constructor's own refresh goes out without an
\* Authorization header; every later token request carries one, the Bearer
\* header of a token issued earlier, which is the one the session still holds
\* while the request is under way
C26_LaterTokenRequestsCarryOldToken ==
    \A t \in Threads : \A i \in DOMAIN token_requests[t] :
        IF token_requests[t][i].step = 0
        THEN /\ i = 1
             /\ "Authorization" \notin DOMAIN token_requests[t][i].request.headers
        ELSE /\ "Authorization" \in DOMAIN token_requests[t][i].request.headers
             /\ SentAuthorization(t, i).scheme = "Bearer"
             /\ SentAuthorization(t, i).token.id \in 1..idp_issued
             /\ (i = Len(token_requests[t]) /\ pc[t] = "token_wait")
                   => SentAuthorization(t, i) = session_headers["Authorization"]

\* a dispatcher call of a constructed client has sent a token request, which
\* carries the token the constructor obtained
C26_Witness ==
    \E t \in Threads :
        /\ constructed # "none"
        /\ pc[t] = "token_wait"
        /\ step[t] = 1
        /\ Len(token_requests[t]) = 1
        /\ SentAuthorization(t, 1) = Bearer(AccessToken(1, 0, Margin))

\* the expiries a refresh can record for an access token: 45 seconds before the
\* token runs out, later by the time the answer took to reach the client
ExpiriesOf(access_token) ==
    {<<access_token.exp - Margin + latency>> : latency \in 0..MaxTime}

\* C27: the recorded expiry of a constructed client is the one of the token in
\* the session's Authorization header, whatever the token endpoint has answered
C27_ExpiryBelongsToSessionToken ==
    constructed # "none" =>
        /\ "Authorization" \in DOMAIN session_headers
        /\ oauth2_token_time_expiration \in
              ExpiriesOf(session_headers["Authorization"].token)

\* the recorded expiry lies in the past
ExpiryPassed ==
    /\ Len(oauth2_token_time_expiration) = 1
    /\ oauth2_token_time_expiration[1] < now

\* the refresh of t records the expiry of a token that lasts less than 45 seconds
RecordsShortLived(t) ==
    /\ pc[t] = "token_update"
    /\ pc'[t] # "token_update"
    /\ "access_token" \in DOMAIN token_response[t].json
    /\ "expires_in" \in DOMAIN token_response[t].json
    /\ token_response[t].json["expires_in"] < Margin

\* the dispatcher call of t makes its freshness check
Checks(t) == pc[t] = "refresh" /\ step[t] >= 1 /\ pc'[t] # "refresh"

\* the storage request of the dispatcher call of t goes out with the token of a
\* token request this call has made
SendsWithNewToken(t) ==
    \E k \in TokenRequestsAt(t, step[t]) :
        /\ token_requests[t][k].reply.status_code = 200
        /\ storage_requests'[t][Len(storage_requests'[t])].request.headers["Authorization"] =
              Bearer(token_requests[t][k].reply.json["access_token"])

\* C28: a token with expires_in below 45 gets an expiry that is already past
\* when it is recorded and stays past; every dispatcher call that finds it makes
\* a token request at its check and sends its storage request with the token of
\* that request; and the call ends, given that the two servers answer.
C28_ShortLivedTokenRefreshedEveryCall ==
    /\ [][\A t \in Threads :
             /\ RecordsShortLived(t) => ExpiryPassed'
             /\ (ExpiryPassed /\ UNCHANGED oauth2_token_time_expiration) => ExpiryPassed'
             /\ (Checks(t) /\ ExpiryPassed) =>
                   /\ pc'[t] = "token_wait"
                   /\ Len(token_requests'[t]) = Len(token_requests[t]) + 1
                   /\ token_requests'[t][Len(token_requests'[t])].step = step[t]
             /\ (Sends(t) /\ \E i \in ChecksAt(t, step[t]) : ExpiryInPast(checks[t][i])) =>
                   SendsWithNewToken(t)]_vars
    /\ \A t \in Callers :
          (pc[t] = "refresh" /\ step[t] >= 1 /\ ExpiryPassed) ~> (pc[t] = "done")

\* the constructor's token had expires_in = 44; the first call on the client
\* has refreshed it and has returned the answer of the storage account
C28_Witness ==
    \E t \in Callers :
        /\ pc[t] = "done"
        /\ step[t] = 1
        /\ result[t].kind # "raised"
        /\ refresh_oauth2_token_command.response.json["expires_in"] = 44
        /\ ExpiryInPast(checks[t][1])
        /\ Len(token_requests[t]) = 1
        /\ Len(storage_requests[t]) = 1
        /\ idp_issued = 2

\* the first token request of a client, made by its constructor, has failed:
\* the token endpoint has refused it or its answer lacks a key
FirstTokenRequestFails(t) ==
    /\ step[t] = 0
    /\ pc[t] \in {"token_wait", "token_update"}
    /\ pc'[t] = "done"
    /\ result'[t].kind = "raised"

\* C29: a constructed client has an expiry recorded and an Authorization header
\* in its session in every state, whatever its operations have met; and a
\* constructor whose token request fails raises and leaves no client.
C29_ConstructedClientHasToken ==
    /\ [](constructed # "none" =>
             /\ Len(oauth2_token_time_expiration) = 1
             /\ "Authorization" \in DOMAIN session_headers)
    /\ [][\A t \in Threads :
             /\ FirstTokenRequestFails(t) => constructed' = "none"
             /\ (constructed = "none" /\ constructed' # "none") =>
                   /\ IsConstructor(op[t]) => result'[t] = Constructed(constructed')
                   /\ Len(oauth2_token_time_expiration') = 1]_vars

\* an operation of a constructed client has failed at the token endpoint, and
\* the client still has its expiry and its Authorization header
C29_Witness ==
    \E t \in Threads :
        /\ constructed # "none"
        /\ pc[t] = "done"
        /\ step[t] >= 1
        /\ result[t].kind = "raised"
        /\ Len(token_requests[t]) > 0
        /\ token_requests[t][Len(token_requests[t])].reply.status_code = 401
        /\ Len(oauth2_token_time_expiration) = 1
        /\ "Authorization" \in DOMAIN session_headers

\* a dispatcher call of t has refreshed the token: the session has a new
\* Authorization header
LaterRefresh(t) ==
    /\ step[t] >= 1
    /\ pc[t] = "token_update"
    /\ pc'[t] # "token_update"
    /\ "access_token" \in DOMAIN token_response[t].json

\* C30: refresh_oauth2_token_command is written by the constructor alone, which
\* clears it and stores its own refresh in it; a refresh made by a later
\* dispatcher call leaves it as it is, and from then on the access_token in its
\* response is not the token of the session's Authorization header.
C30_CommandWrittenByConstructorOnly ==
    [][\A t \in Threads :
          /\ (refresh_oauth2_token_command' # refresh_oauth2_token_command
                /\ pc'[t] # pc[t]) =>
                /\ IsConstructor(op'[t])
                /\ step[t] = 0
          /\ LaterRefresh(t) =>
                /\ UNCHANGED refresh_oauth2_token_command
                /\ session_headers'["Authorization"] =
                      Bearer(token_response[t].json["access_token"])
                /\ refresh_oauth2_token_command.response.json["access_token"] #
                      session_headers'["Authorization"].token]_vars

\* a call on a constructed client has refreshed the token and returned; the
\* command still holds the constructor's token and the session the new one
C30_Witness ==
    \E t \in Threads :
        /\ constructed # "none"
        /\ pc[t] = "done"
        /\ step[t] >= 1
        /\ Len(token_requests[t]) = 1
        /\ refresh_oauth2_token_command.response.json["access_token"].id = 1
        /\ session_headers["Authorization"].token.id = 2

====
